---- MODULE Spec2Model ----
(***************************************************************************)
(* Model of the flexibility-valuation engine of the European electricity   *)
(* dashboard: the window savings calculator (three copies in the source),  *)
(* the daily aggregator of the batch script, the hybrid static/live merge  *)
(* of the FlexibilityCalculator component, the ENTSO-E and carbon API      *)
(* routes, and the Home page with its Dashboard and FlexibilityCalculator  *)
(* children under country selection.                                       *)
(*                                                                         *)
(* Numbers.  A price or carbon value x of the program is the integer       *)
(* 1000 * x here (three decimal places), and arithmetic is exact: a        *)
(* quotient is kept as numerator and denominator until the code rounds it. *)
(* A rounded field holds the integer Math.round produced: avgSavingsPerMWh *)
(* and percentageOfAvgPrice are in hundredths, savingsPerGWh in units.     *)
(* A JavaScript number is a record [kind, val]; kind is "num", "NaN" or    *)
(* "Infinity".                                                             *)
(***************************************************************************)
EXTENDS Integers, Sequences, FiniteSets, Bags, TLC

VARIABLES
    hourlyInput,    \* calculator run: the value sequence handed to a calculator
    calcCall,       \* calculator run: which calculator ran last and what it returned
    priceData,      \* batch script: the rows of the price CSV for the country
    carbonData,     \* batch script: the rows of the carbon CSV for the country
    priceRows,      \* batch script: the price rows of the country read so far, in feed order
    countryPrices,  \* batch script: countryPrices[iso3], a map from datetime to price
    carbonRows,     \* batch script: the carbon rows of the country read so far
    countryCarbon,  \* batch script: countryCarbon[iso3], its entries in key order
    batchPc,        \* batch script: "rows" while the row loops run, "written" after the
                    \* country's file, "done" after the summary
    countryFile,    \* batch script: the country's JSON file, Null until written
    summary,        \* batch script: summary[iso3], Null until built
    today,          \* FlexibilityCalculator: the day number of new Date()
    data,           \* FlexibilityCalculator: useState data, Null until the file is loaded
    loading,        \* FlexibilityCalculator: useState loading
    startDate,      \* FlexibilityCalculator: useState startDate, a day number
    endDate,        \* FlexibilityCalculator: useState endDate, a day number
    livePriceData,  \* FlexibilityCalculator: useState livePriceData
    priceDataSource,         \* FlexibilityCalculator: useState priceDataSource
    calculatedCarbonMetrics, \* FlexibilityCalculator: useState calculatedCarbonMetrics
    carbonDataSource,        \* FlexibilityCalculator: useState carbonDataSource
    hourlyCarbonData,        \* FlexibilityCalculator: the hourlyCarbonData prop
    routeCall,      \* API routes: the last request served and the answer given
    deployment,     \* the deployment: the API keys in process.env and the files under /data
    summaryData,    \* Home: useState summaryData, Null until summary.json is loaded
    homeLoading,    \* Home: useState loading
    selectedCountry,\* Home: useState selectedCountry, the countryCode prop of both children
    mounted,        \* Home: the children the page under check renders for a selected country
    dashboard,      \* Dashboard: its useState values, by name
    refresh,        \* Dashboard: where a running handleRefresh stands, and its countryCode
    fetches         \* the requests of the components' effects that have not settled yet

calcVars == <<hourlyInput, calcCall>>

batchVars == <<priceData, carbonData, priceRows, countryPrices, carbonRows, countryCarbon,
               batchPc, countryFile, summary>>

uiVars == <<today, data, loading, startDate, endDate, livePriceData, priceDataSource>>

carbonVars == <<calculatedCarbonMetrics, carbonDataSource, hourlyCarbonData>>

routeVars == <<routeCall>>

pageVars == <<deployment, mounted, summaryData, homeLoading, selectedCountry, dashboard, refresh, fetches>>

vars == <<calcVars, batchVars, uiVars, carbonVars, routeVars, pageVars>>

(***************************************************************************)
(* Bounds of the model.                                                    *)
(***************************************************************************)
MaxLen == 25

MaxRows == 3

MaxCarbonRows == 9

MaxDay == 2

MaxStatic == 25

MaxPoints == 3

MaxStale == 1

(***************************************************************************)
(* JavaScript helpers.                                                     *)
(***************************************************************************)
Null == [kind |-> "null"]

Num(v) == [kind |-> "num", val |-> v]

NaN == [kind |-> "NaN", val |-> 0]

Infinity == [kind |-> "Infinity", val |-> 0]

MathMin(a, b) == IF a < b THEN a ELSE b

MathMax(a, b) == IF a > b THEN a ELSE b

\* Math.round(num / den) for den > 0: the nearest integer, halves towards +Infinity.
RoundPos(num, den) == (num \div den) + (IF 2 * (num % den) >= den THEN 1 ELSE 0)

\* Math.round(num / den) as a JavaScript number; a zero divisor gives NaN or Infinity.
MathRoundDiv(num, den) ==
    IF den > 0 THEN Num(RoundPos(num, den))
    ELSE IF den < 0 THEN Num(RoundPos(-num, -den))
    ELSE IF num = 0 THEN NaN
    ELSE Infinity

\* array.reduce((s, p) => s + p, 0).  The sum is exact, so its grouping does not
\* matter; it is taken by halves to keep the evaluation of long series shallow.
RECURSIVE SumSeq(_)
SumSeq(s) ==
    IF Len(s) = 0 THEN 0
    ELSE IF Len(s) = 1 THEN s[1]
    ELSE LET half == Len(s) \div 2
         IN SumSeq(SubSeq(s, 1, half)) + SumSeq(SubSeq(s, half + 1, Len(s)))

(***************************************************************************)
(* The window savings calculator.  The source holds it three times; each   *)
(* copy is modelled from its own text.                                     *)
(***************************************************************************)
MinPoints == 24

windows == <<1, 2, 4, 8>>

\* `${window}h`
Label(window) ==
    CASE window = 1 -> "1h" [] window = 2 -> "2h" [] window = 4 -> "4h" [] window = 8 -> "8h"

\* the keys windows.forEach gives the results object
WindowLabels == {Label(windows[i]) : i \in 1 .. Len(windows)}

IsNull(x) == x.kind = "null"

WindowOf(label) ==
    CASE label = "1h" -> 1 [] label = "2h" -> 2 [] label = "4h" -> 4 [] label = "8h" -> 8

\* the average taken over the hours that can shift instead of over all hours
ReportedMetricPerShift(total, shifts, len, sum) ==
    LET avgNum == IF shifts > 0 THEN total ELSE 0
        den == IF shifts > 0 THEN shifts ELSE len
    IN [ totalSavings |-> total,
         possibleShifts |-> shifts,
         avgNum |-> avgNum,
         avgDen |-> den,
         avgSavingsPerMWh |-> RoundPos(avgNum * 100, den * 1000),
         savingsPerGWh |-> RoundPos(avgNum * 1000, den * 1000),
         percentageOfAvgPrice |-> MathRoundDiv(avgNum * 10000, sum) ]

\* The rounded fields of one reported metric, from the loop's totals.
\* total: sum of the positive savings; len: hourlyData.length; sum: sum of the values.
ReportedMetric(total, shifts, len, sum) ==
    LET avgNum == IF shifts > 0 THEN total ELSE 0
    IN [ totalSavings |-> total,
         possibleShifts |-> shifts,
         avgNum |-> avgNum,
         avgDen |-> len,
         avgSavingsPerMWh |-> RoundPos(avgNum * 100, len * 1000),
         savingsPerGWh |-> RoundPos(avgNum * 1000, len * 1000),
         percentageOfAvgPrice |-> MathRoundDiv(avgNum * 10000, sum) ]

---------------------------------------------------------------------------
\* process-data.js: calculateFlexibilityMetrics
RECURSIVE BatchForward(_, _, _, _, _)
BatchForward(prices, i, window, j, minPrice) ==
    IF j > window THEN minPrice
    ELSE BatchForward(prices, i, window, j + 1,
                      IF i + j <= Len(prices) THEN MathMin(minPrice, prices[i + j]) ELSE minPrice)

RECURSIVE BatchBackward(_, _, _, _, _)
BatchBackward(prices, i, window, j, minPrice) ==
    IF j > window THEN minPrice
    ELSE BatchBackward(prices, i, window, j + 1,
                       IF i - j >= 1 THEN MathMin(minPrice, prices[i - j]) ELSE minPrice)

BatchSavingsSwapped(prices, i, window) ==
    BatchBackward(prices, i, window, 1, BatchForward(prices, i, window, 1, prices[i])) - prices[i]

\* savings of 1-based index i: currentPrice - minPrice
BatchSavings(prices, i, window) ==
    prices[i] - BatchBackward(prices, i, window, 1, BatchForward(prices, i, window, 1, prices[i]))

\* The totals of the iterations lo .. hi of the index loop (1-based indices).  The
\* batch script runs the loop over up to 720 hours; the totals are sums, the same
\* whatever the grouping, and are taken by halves to keep the evaluation shallow.
RECURSIVE BatchLoopRange(_, _, _, _)
BatchLoopRange(prices, window, lo, hi) ==
    IF lo > hi THEN [totalSavings |-> 0, possibleShifts |-> 0]
    ELSE IF lo = hi
    THEN LET savings == BatchSavings(prices, lo, window)
         IN IF savings > 0
            THEN [totalSavings |-> savings, possibleShifts |-> 1]
            ELSE [totalSavings |-> 0, possibleShifts |-> 0]
    ELSE LET mid == (lo + hi) \div 2
             first == BatchLoopRange(prices, window, lo, mid)
             second == BatchLoopRange(prices, window, mid + 1, hi)
         IN [totalSavings |-> first.totalSavings + second.totalSavings,
             possibleShifts |-> first.possibleShifts + second.possibleShifts]

\* for (let i = 0; i < hourlyData.length - window; i++), i here is the 1-based index:
\* the iterations from i while i - 1 < hourlyData.length - window, added to acc
BatchLoop(prices, window, i, acc) ==
    LET rest == BatchLoopRange(prices, window, i, Len(prices) - window)
    IN [totalSavings |-> acc.totalSavings + rest.totalSavings,
        possibleShifts |-> acc.possibleShifts + rest.possibleShifts]

calculateFlexibilityMetrics(prices) ==
    IF Len(prices) < MinPoints THEN Null
    ELSE [kind |-> "metrics",
          m |-> [l \in WindowLabels |->
                   LET acc == BatchLoop(prices, WindowOf(l), 1, [totalSavings |-> 0, possibleShifts |-> 0])
                   IN ReportedMetric(acc.totalSavings, acc.possibleShifts, Len(prices), SumSeq(prices))]]

---------------------------------------------------------------------------
\* FlexibilityCalculator.tsx: calculatePriceFlexibility
RECURSIVE PriceForward(_, _, _, _, _)
PriceForward(prices, i, window, j, minPrice) ==
    IF j > window THEN minPrice
    ELSE PriceForward(prices, i, window, j + 1,
                      IF i + j <= Len(prices) THEN MathMin(minPrice, prices[i + j]) ELSE minPrice)

RECURSIVE PriceBackward(_, _, _, _, _)
PriceBackward(prices, i, window, j, minPrice) ==
    IF j > window THEN minPrice
    ELSE PriceBackward(prices, i, window, j + 1,
                       IF i - j >= 1 THEN MathMin(minPrice, prices[i - j]) ELSE minPrice)

PriceSavings(prices, i, window) ==
    prices[i] - PriceBackward(prices, i, window, 1, PriceForward(prices, i, window, 1, prices[i]))

RECURSIVE PriceLoop(_, _, _, _)
PriceLoop(prices, window, i, acc) ==
    IF ~(i - 1 < Len(prices) - window) THEN acc
    ELSE LET savings == PriceSavings(prices, i, window)
         IN PriceLoop(prices, window, i + 1,
                      IF savings > 0
                      THEN [totalSavings |-> acc.totalSavings + savings,
                            possibleShifts |-> acc.possibleShifts + 1]
                      ELSE acc)

calculatePriceFlexibility(prices) ==
    IF Len(prices) < MinPoints THEN Null
    ELSE LET avgPriceSum == SumSeq(prices)
         IN [kind |-> "metrics",
             m |-> [l \in WindowLabels |->
                      LET acc == PriceLoop(prices, WindowOf(l), 1, [totalSavings |-> 0, possibleShifts |-> 0])
                      IN ReportedMetric(acc.totalSavings, acc.possibleShifts, Len(prices), avgPriceSum)]]

---------------------------------------------------------------------------
\* FlexibilityCalculator.tsx: calculateCarbonFlexibility
RECURSIVE CarbonForward(_, _, _, _, _)
CarbonForward(carbon, i, window, j, minCarbon) ==
    IF j > window THEN minCarbon
    ELSE CarbonForward(carbon, i, window, j + 1,
                       IF i + j <= Len(carbon) THEN MathMin(minCarbon, carbon[i + j]) ELSE minCarbon)

RECURSIVE CarbonBackward(_, _, _, _, _)
CarbonBackward(carbon, i, window, j, minCarbon) ==
    IF j > window THEN minCarbon
    ELSE CarbonBackward(carbon, i, window, j + 1,
                        IF i - j >= 1 THEN MathMin(minCarbon, carbon[i - j]) ELSE minCarbon)

CarbonSavings(carbon, i, window) ==
    carbon[i] - CarbonBackward(carbon, i, window, 1, CarbonForward(carbon, i, window, 1, carbon[i]))

\* the index loop running over every index of the series
RECURSIVE CarbonLoopAllIndices(_, _, _, _)
CarbonLoopAllIndices(carbon, window, i, acc) ==
    IF ~(i - 1 < Len(carbon)) THEN acc
    ELSE LET savings == CarbonSavings(carbon, i, window)
         IN CarbonLoopAllIndices(carbon, window, i + 1,
                                 IF savings > 0
                                 THEN [totalSavings |-> acc.totalSavings + savings,
                                       possibleShifts |-> acc.possibleShifts + 1]
                                 ELSE acc)

RECURSIVE CarbonLoop(_, _, _, _)
CarbonLoop(carbon, window, i, acc) ==
    IF ~(i - 1 < Len(carbon) - window) THEN acc
    ELSE LET savings == CarbonSavings(carbon, i, window)
         IN CarbonLoop(carbon, window, i + 1,
                       IF savings > 0
                       THEN [totalSavings |-> acc.totalSavings + savings,
                             possibleShifts |-> acc.possibleShifts + 1]
                       ELSE acc)

\* the short-input guard dropped: a window's loop over a short series yields zeros
calculateCarbonFlexibilityNoGuard(carbon) ==
    [kind |-> "metrics",
     m |-> [l \in WindowLabels |->
              LET acc == CarbonLoop(carbon, WindowOf(l), 1, [totalSavings |-> 0, possibleShifts |-> 0])
              IN ReportedMetric(acc.totalSavings, acc.possibleShifts, Len(carbon), SumSeq(carbon))]]

calculateCarbonFlexibility(carbon) ==
    IF Len(carbon) < MinPoints THEN Null
    ELSE LET avgCarbonSum == SumSeq(carbon)
         IN [kind |-> "metrics",
             m |-> [l \in WindowLabels |->
                      LET acc == CarbonLoop(carbon, WindowOf(l), 1, [totalSavings |-> 0, possibleShifts |-> 0])
                      IN ReportedMetric(acc.totalSavings, acc.possibleShifts, Len(carbon), avgCarbonSum)]]

(***************************************************************************)
(* The parts of the state a run does not use stay at these values.         *)
(***************************************************************************)
NoCall == [fn |-> "none", result |-> Null]

CalcIdle == hourlyInput = <<>> /\ calcCall = NoCall

BatchIdle ==
    /\ priceData = <<>>
    /\ carbonData = <<>>
    /\ priceRows = <<>>
    /\ countryPrices = <<>>
    /\ carbonRows = <<>>
    /\ countryCarbon = <<>>
    /\ batchPc = "idle"
    /\ countryFile = Null
    /\ summary = Null

UiIdle ==
    /\ today = 0
    /\ data = Null
    /\ loading = FALSE
    /\ startDate = 0
    /\ endDate = 0
    /\ livePriceData = <<>>
    /\ priceDataSource = "static"

\* useState(null) and useState('estimated') of calculatedCarbonMetrics and carbonDataSource
CarbonIdle ==
    /\ calculatedCarbonMetrics = Null
    /\ carbonDataSource = "estimated"
    /\ hourlyCarbonData = Null

NoRequest == [route |-> "none"]

RouteIdle == routeCall = NoRequest

\* useState<string | null>(null) of selectedCountry
NoCountry == "null"

NoKeys == [entsoe |-> FALSE, electricityMaps |-> FALSE]

NoDeployment == [keys |-> NoKeys, files |-> {}]

\* the useState initial values of Dashboard
DashboardInitial ==
    [data |-> Null,
     loading |-> TRUE,
     livePrices |-> Null,
     liveCarbon |-> Null,
     dataSource |-> [priceSource |-> "static", carbonSource |-> "static"],
     refreshing |-> FALSE]

NotRefreshing == [pc |-> "idle", countryCode |-> NoCountry]

PageIdle ==
    /\ deployment = NoDeployment
    /\ mounted = {}
    /\ summaryData = Null
    /\ homeLoading = FALSE
    /\ selectedCountry = NoCountry
    /\ dashboard = DashboardInitial
    /\ refresh = NotRefreshing
    /\ fetches = EmptyBag

(***************************************************************************)
(* Datetime strings.  A datetime string is a record of its calendar date   *)
(* (a day number), its minute of the day and its format: "csv" is the      *)
(* 'YYYY-MM-DD HH:MM:SS' of the price CSV, "iso" the                       *)
(* 'YYYY-MM-DDTHH:MM:SS.sssZ' of Date.toISOString.  Two strings are equal  *)
(* when all three agree.                                                   *)
(***************************************************************************)
MinutesPerDay == 1440

CsvDatetime(day, minute) == [date |-> day, minute |-> minute, fmt |-> "csv"]

\* a.localeCompare(b) < 0: the date digits decide first, then the separator
\* (' ' collates before 'T'), then the time digits.
LocaleLess(a, b) ==
    \/ a.date < b.date
    \/ /\ a.date = b.date
       /\ \/ a.fmt = "csv" /\ b.fmt = "iso"
          \/ a.fmt = b.fmt /\ a.minute < b.minute

\* array.sort((a, b) => a.datetime.localeCompare(b.datetime)): a stable sort, so
\* element i lands after the elements that compare less and after the earlier
\* elements that compare equal.
SortedPosition(s, i) ==
    1 + Cardinality({j \in 1 .. Len(s) :
                       \/ LocaleLess(s[j].datetime, s[i].datetime)
                       \/ j < i /\ s[j].datetime = s[i].datetime})

\* the comparator's arguments exchanged: a descending sort
SortByDatetimeDescending(s) ==
    [k \in 1 .. Len(s) |-> s[CHOOSE i \in 1 .. Len(s) : SortedPosition(s, i) = Len(s) + 1 - k]]

SortByDatetime(s) ==
    [k \in 1 .. Len(s) |-> s[CHOOSE i \in 1 .. Len(s) : SortedPosition(s, i) = k]]

\* array.slice(0, n)
SliceFirst(s, n) == IF Len(s) <= n THEN s ELSE SubSeq(s, 1, n)

\* array.slice(-n)
SliceLast(s, n) == IF Len(s) <= n THEN s ELSE SubSeq(s, Len(s) - n + 1, Len(s))

(***************************************************************************)
(* The batch script process-data.js, for one country.  The price CSV and   *)
(* the carbon CSV are its inputs; it reads all price rows, then all carbon *)
(* rows, then writes the country's file and the summary.                   *)
(*                                                                         *)
(* parseFloat gives Infinity for the text "Infinity" and isNaN lets it     *)
(* pass, so a stored value is a finite number or Infinity.  Infinity is    *)
(* held as InfinityVal, which is above every finite value and every sum of *)
(* the model; sums and means saturate at it.  A series that holds an       *)
(* Infinity is shorter than MinPoints in this model, so the calculator     *)
(* never meets one.                                                        *)
(***************************************************************************)
RecentHours == 168

Last30DaysHours == 720

LastYearDays == 365

CarbonDays == 7

InfinityVal == 100000000

\* the number a parsed value is stored as
StoredValue(x) == IF x.kind = "Infinity" THEN InfinityVal ELSE x.val

\* a stored number as a JavaScript number
JsNumber(v) == IF v >= InfinityVal THEN Infinity ELSE Num(v)

\* a + b of two stored numbers
JsPlus(a, b) == IF a >= InfinityVal \/ b >= InfinityVal THEN InfinityVal ELSE a + b

\* array.reduce((s, p) => s + p, 0) of stored numbers, taken by halves
RECURSIVE JsSumSeq(_)
JsSumSeq(s) ==
    IF Len(s) = 0 THEN 0
    ELSE IF Len(s) = 1 THEN s[1]
    ELSE LET half == Len(s) \div 2
         IN JsPlus(JsSumSeq(SubSeq(s, 1, half)), JsSumSeq(SubSeq(s, half + 1, Len(s))))

\* a row's price stored although it did not parse: zero-filled
StorePriceZeroFill(prices, row) == (row.datetime :> StoredValue(row.price)) @@ prices

\* if (!isNaN(price)) countryPrices[iso3][datetime] = price
StorePrice(prices, row) ==
    IF row.price.kind # "NaN"
    THEN (row.datetime :> StoredValue(row.price)) @@ prices
    ELSE prices

\* The carbon CSV writes a date YYYY/M/D, with or without leading zeros; the key is
\* YYYY-MM-DD with the month and the day padded to two digits.
CarbonDate(timestamp) == timestamp.day

\* if (!isNaN(value)) countryCarbon[iso3][date] = value.  The object keeps its keys
\* in the order of their first assignment: countryCarbon is the sequence of its
\* entries in that order, and assigning an existing key leaves its place.
StoreCarbon(carbon, row) ==
    LET date == CarbonDate(row.timestamp)
        entry == [date |-> date, value |-> StoredValue(row.value)]
    IN IF row.value.kind = "NaN" THEN carbon
       ELSE IF \E i \in 1 .. Len(carbon) : carbon[i].date = date
       THEN [i \in 1 .. Len(carbon) |-> IF carbon[i].date = date THEN entry ELSE carbon[i]]
       ELSE Append(carbon, entry)

\* Object.entries(countryPrices[iso3]).map(...): one entry per key; the sort that
\* follows orders them, the keys being distinct strings.  The keys are listed by
\* halves, split at a middle key.
RECURSIVE EntriesOf(_, _)
EntriesOf(prices, keys) ==
    IF keys = {} THEN <<>>
    ELSE IF Cardinality(keys) = 1
    THEN LET k == CHOOSE x \in keys : TRUE
         IN <<[datetime |-> k, price |-> prices[k]]>>
    ELSE LET middle == CHOOSE k \in keys :
                          Cardinality({j \in keys : LocaleLess(j, k)}) = Cardinality(keys) \div 2
             early == {j \in keys : LocaleLess(j, middle)}
         IN EntriesOf(prices, early) \o EntriesOf(prices, keys \ early)

HourlyPricesOf(prices) == SortByDatetime(EntriesOf(prices, DOMAIN prices))

PricesOf(hourly) == [i \in 1 .. Len(hourly) |-> hourly[i].price]

\* every datetime taken for the same date
DatePartConstant(datetime) == 0

\* datetime.split(' ')[0] of a CSV datetime
DatePart(datetime) == datetime.date

\* dailyPrices after the hourlyPrices.forEach callback ran on one entry alone
DailyOfEntry(entry) ==
    DatePart(entry.datetime) :>
        [sum |-> entry.price, count |-> 1, min |-> entry.price, max |-> entry.price]

\* dailyPrices after the callback ran on the entries of a and then on those of b:
\* per date the sums and counts add up and the minimum and maximum are taken
MergeDaily(a, b) ==
    [d \in DOMAIN a \cup DOMAIN b |->
       IF d \notin DOMAIN b THEN a[d]
       ELSE IF d \notin DOMAIN a THEN b[d]
       ELSE [sum |-> JsPlus(a[d].sum, b[d].sum),
             count |-> a[d].count + b[d].count,
             min |-> MathMin(a[d].min, b[d].min),
             max |-> MathMax(a[d].max, b[d].max)]]

\* dailyPrices of the entries lo .. hi.  The per-date sum, count, minimum and maximum
\* are the same whatever the grouping of the entries; they are taken by halves to
\* keep the evaluation of long series shallow.
RECURSIVE DailyFoldRange(_, _, _)
DailyFoldRange(hourly, lo, hi) ==
    IF lo > hi THEN <<>>
    ELSE IF lo = hi THEN DailyOfEntry(hourly[lo])
    ELSE LET mid == (lo + hi) \div 2
         IN MergeDaily(DailyFoldRange(hourly, lo, mid), DailyFoldRange(hourly, mid + 1, hi))

\* hourlyPrices.forEach from entry i on: sum, count, min and max per date
DailyFold(hourly, i, dailyPrices) ==
    MergeDaily(dailyPrices, DailyFoldRange(hourly, i, Len(hourly)))

\* Math.round((sum / count) * 100) / 100 of stored numbers, count > 0
RoundedMean(sum, count) ==
    IF sum >= InfinityVal THEN InfinityVal ELSE RoundPos(sum * 100, count * 1000) * 10

\* one entry of dailyPriceArray; avgPrice is Math.round((sum / count) * 100) / 100
DailyRecord(date, agg) ==
    [date |-> date,
     avgPrice |-> RoundedMean(agg.sum, agg.count),
     minPrice |-> agg.min,
     maxPrice |-> agg.max]

\* .sort((a, b) => a.date.localeCompare(b.date)) of the per-date entries
RECURSIVE DailyPriceArray(_, _)
DailyPriceArray(dailyPrices, dates) ==
    IF dates = {} THEN <<>>
    ELSE LET last == CHOOSE d \in dates : \A e \in dates : e <= d
         IN Append(DailyPriceArray(dailyPrices, dates \ {last}), DailyRecord(last, dailyPrices[last]))

\* dailyPriceArray of a country's hourly prices
dailyPriceArray(hourlyPrices) ==
    LET dailyPrices == DailyFold(hourlyPrices, 1, <<>>)
    IN DailyPriceArray(dailyPrices, DOMAIN dailyPrices)

\* the countryData object written to <iso3>.json
BuildCountryData(prices) ==
    LET hourlyPrices == HourlyPricesOf(prices)
    IN [kind |-> "countryData",
        recentHourly |-> SliceLast(hourlyPrices, RecentHours),
        dailyPrices |-> SliceLast(dailyPriceArray(hourlyPrices), LastYearDays),
        flexibilityMetrics |-> calculateFlexibilityMetrics(PricesOf(SliceLast(hourlyPrices, Last30DaysHours)))]

\* the mean tested for truthiness, so that a mean of 0 is reported as null
WindowMeanFalsy(recent) ==
    IF Len(recent) > 0 /\ JsSumSeq(recent) # 0
    THEN JsNumber(RoundedMean(JsSumSeq(recent), Len(recent)))
    ELSE Null

\* recent.length > 0 ? Math.round((recent.reduce(...) / recent.length) * 100) / 100 : null
WindowMean(recent) ==
    IF Len(recent) > 0 THEN JsNumber(RoundedMean(JsSumSeq(recent), Len(recent))) ELSE Null

\* summary[iso3]
summaryOf(prices, carbon) ==
    LET hourlyPrices == HourlyPricesOf(prices)
        recentPrices == SliceLast(hourlyPrices, RecentHours)
        carbonValues == [i \in 1 .. Len(carbon) |-> carbon[i].value]
        recentCarbon == SliceLast(carbonValues, CarbonDays)
    IN [kind |-> "summary",
        currentPrice |-> IF Len(recentPrices) > 0
                         THEN JsNumber(recentPrices[Len(recentPrices)].price)
                         ELSE Null,
        avgPrice7d |-> WindowMean(PricesOf(recentPrices)),
        avgCarbon7d |-> WindowMean(recentCarbon)]

\* priceData.forEach(...) as a whole: countryPrices[iso3] after the rows.  A later
\* assignment of a datetime overrides an earlier one, so the rows are taken by halves
\* and the second half overrides the first.
RECURSIVE FoldPrices(_, _)
FoldPrices(rows, prices) ==
    IF Len(rows) = 0 THEN prices
    ELSE IF Len(rows) = 1 THEN StorePrice(prices, rows[1])
    ELSE LET half == Len(rows) \div 2
         IN FoldPrices(SubSeq(rows, half + 1, Len(rows)), <<>>)
                @@ FoldPrices(SubSeq(rows, 1, half), prices)

\* carbonData.forEach(...) as a whole: countryCarbon[iso3] after the rows
RECURSIVE FoldCarbon(_, _)
FoldCarbon(rows, carbon) ==
    IF rows = <<>> THEN carbon ELSE FoldCarbon(Tail(rows), StoreCarbon(carbon, Head(rows)))

\* the normalization of a price feed: drop, keep one per datetime, sort
Normalize(rows) == HourlyPricesOf(FoldPrices(rows, <<>>))

---------------------------------------------------------------------------
\* The rows of the price CSV for the country: a datetime and the parseFloat of the
\* price column.
BatchDatetimes == {CsvDatetime(0, 0), CsvDatetime(0, 60), CsvDatetime(2, 0)}

BatchPrices == {Num(0), Num(10004), NaN, Infinity}

PriceRowSet == [datetime : BatchDatetimes, price : BatchPrices]

\* rows r + 1 .. Len(s) of a feed, then rows 1 .. r
Rotate(s, r) == SubSeq(s, r + 1, Len(s)) \o SubSeq(s, 1, r)

\* short price files: any rows in any order
ShortPriceFeeds == UNION {[1 .. n -> PriceRowSet] : n \in 1 .. MaxRows}

\* long price files: one row per hour, more rows than the recent window holds,
\* in ascending order or rotated
LongPrice(hour) == 100 * (hour % 5)

LongPriceFeed(n, r) ==
    Rotate([i \in 1 .. n |->
              [datetime |-> CsvDatetime((i - 1) \div 24, ((i - 1) % 24) * 60),
               price |-> Num(LongPrice(i - 1))]], r)

LongPriceFeeds ==
    {LongPriceFeed(n, r) : n \in {RecentHours + 1, RecentHours + 2}, r \in {0, 1, RecentHours}}

\* carbon files: one row per day, in ascending order or rotated, one value replaced
CarbonValue(day) == 100000 + 1000 * day

CarbonSpecials == {Num(0), NaN, Infinity}

CarbonFeed(n, r, p, v) ==
    LET base == [i \in 1 .. n |->
                   [timestamp |-> [day |-> i - 1, padded |-> (i % 2 = 0)],
                    value |-> Num(CarbonValue(i - 1))]]
        rotated == Rotate(base, r)
    IN [i \in 1 .. n |-> IF i = p THEN [rotated[i] EXCEPT !.value = v] ELSE rotated[i]]

CarbonFeeds ==
    LET choices == {c \in (1 .. MaxCarbonRows) \X (0 .. MaxCarbonRows) \X (0 .. MaxCarbonRows) :
                      c[2] < c[1] /\ c[3] <= c[1]}
    IN {CarbonFeed(c[1], c[2], c[3], v) : c \in choices, v \in CarbonSpecials}

DefaultPriceFeed == <<[datetime |-> CsvDatetime(0, 0), price |-> Num(10004)]>>

DefaultCarbonFeed == CarbonFeed(1, 0, 1, NaN)

\* the pairs of input files of a run
BatchInputs ==
    {[price |-> f, carbon |-> DefaultCarbonFeed] : f \in ShortPriceFeeds \cup LongPriceFeeds}
        \cup {[price |-> DefaultPriceFeed, carbon |-> c] : c \in CarbonFeeds}

InitBatch ==
    /\ CalcIdle
    /\ UiIdle
    /\ CarbonIdle
    /\ RouteIdle
    /\ PageIdle
    /\ \E in \in BatchInputs :
          /\ priceData = in.price
          /\ carbonData = in.carbon
    /\ priceRows = <<>>
    /\ countryPrices = <<>>
    /\ carbonRows = <<>>
    /\ countryCarbon = <<>>
    /\ batchPc = "rows"
    /\ countryFile = Null
    /\ summary = Null

\* priceData.forEach(row => ...): one iteration
ProcessPriceRow ==
    /\ batchPc = "rows"
    /\ Len(priceRows) < Len(priceData)
    /\ LET row == priceData[Len(priceRows) + 1]
       IN /\ priceRows' = Append(priceRows, row)
          /\ countryPrices' = StorePrice(countryPrices, row)
    /\ UNCHANGED <<priceData, carbonData, carbonRows, countryCarbon, batchPc, countryFile,
                   summary, calcVars, uiVars, carbonVars, routeVars, pageVars>>

\* carbonData.forEach(row => ...): one iteration
ProcessCarbonRow ==
    /\ batchPc = "rows"
    /\ Len(priceRows) = Len(priceData)
    /\ Len(carbonRows) < Len(carbonData)
    /\ LET row == carbonData[Len(carbonRows) + 1]
       IN /\ carbonRows' = Append(carbonRows, row)
          /\ countryCarbon' = StoreCarbon(countryCarbon, row)
    /\ UNCHANGED <<priceData, carbonData, priceRows, countryPrices, batchPc, countryFile,
                   summary, calcVars, uiVars, carbonVars, routeVars, pageVars>>

\* availableCountries.forEach(iso3 => ...): the country's file is built and written
WriteCountryFile ==
    /\ batchPc = "rows"
    /\ Len(priceRows) = Len(priceData)
    /\ Len(carbonRows) = Len(carbonData)
    /\ countryFile' = BuildCountryData(countryPrices)
    /\ batchPc' = "written"
    /\ UNCHANGED <<priceData, carbonData, priceRows, countryPrices, carbonRows, countryCarbon,
                   summary, calcVars, uiVars, carbonVars, routeVars, pageVars>>

\* availableCountries.forEach(iso3 => ...) of the summary: summary[iso3] is built
WriteSummary ==
    /\ batchPc = "written"
    /\ summary' = summaryOf(countryPrices, countryCarbon)
    /\ batchPc' = "done"
    /\ UNCHANGED <<priceData, carbonData, priceRows, countryPrices, carbonRows, countryCarbon,
                   countryFile, calcVars, uiVars, carbonVars, routeVars, pageVars>>

NextBatch == ProcessPriceRow \/ ProcessCarbonRow \/ WriteCountryFile \/ WriteSummary

SpecBatch == InitBatch /\ [][NextBatch]_vars

(***************************************************************************)
(* The ENTSO-E route (route.ts).  The XML is the sequence of its Period    *)
(* elements: start instant in minutes, resolution, and its Point elements, *)
(* each a position and a price amount.  The text of an amount is matched   *)
(* by [\d.]+ exactly when the amount has no sign.                          *)
(***************************************************************************)
IsoDatetime(t) == [date |-> t \div MinutesPerDay, minute |-> t % MinutesPerDay, fmt |-> "iso"]

MinutesPerPeriod(resolution) == IF resolution = "PT15M" THEN 15 ELSE 60

\* <price\.amount>([\d.]+)<\/price\.amount> matches the amount of a Point
AmountMatches(point) == point.amount >= 0

\* the index of the first Point from i on whose amount matches, 0 if there is none
RECURSIVE NextAmount(_, _)
NextAmount(points, i) ==
    IF i > Len(points) THEN 0
    ELSE IF AmountMatches(points[i]) THEN i
    ELSE NextAmount(points, i + 1)

\* The successive matches of pointRegex in a Period, scanning from Point i.  A match
\* starts at the next <Point>, takes the first <position> after it, then, [\s\S]*?
\* crossing Point boundaries, the first amount after that which matches, and ends at
\* the </Point> that follows; the scan resumes there.
RECURSIVE PointMatches(_, _)
PointMatches(points, i) ==
    IF i > Len(points) THEN <<>>
    ELSE LET j == NextAmount(points, i)
         IN IF j = 0 THEN <<>>
            ELSE <<[position |-> points[i].position, amount |-> points[j].amount]>>
                 \o PointMatches(points, j + 1)

\* while ((match = pointRegex.exec(period)) !== null) prices.push(...)
RECURSIVE PeriodPrices(_, _)
PeriodPrices(period, k) ==
    LET matches == PointMatches(period.points, 1)
    IN IF k > Len(matches) THEN <<>>
       ELSE <<[datetime |-> IsoDatetime(period.start
                                          + (matches[k].position - 1) * MinutesPerPeriod(period.resolution)),
               price |-> matches[k].amount]>>
            \o PeriodPrices(period, k + 1)

RECURSIVE PushedPrices(_)
PushedPrices(xml) ==
    IF xml = <<>> THEN <<>> ELSE PeriodPrices(Head(xml), 1) \o PushedPrices(Tail(xml))

parseENTSOEPrices(xml) == SortByDatetime(PushedPrices(xml))

\* The answer of a route: the HTTP status, the fields of the JSON body the clients
\* read (Null: the body has no such field), and the number of requests the handler
\* sent upstream while serving.
EntsoeAnswer(status, source, prices, upstreamRequests) ==
    [status |-> status,
     source |-> source,
     prices |-> prices,
     stats |-> IF Len(prices) = 0 THEN Null
               ELSE [kind |-> "stats", currentPrice |-> prices[Len(prices)].price],
     upstreamRequests |-> upstreamRequests]

\* the route asking upstream whether or not a key is configured
entsoeGETWithoutKeyCheck(apiKey, upstream) ==
    IF ~upstream.ok THEN EntsoeAnswer(500, "error", <<>>, 1)
    ELSE LET prices == parseENTSOEPrices(upstream.xml)
         IN IF Len(prices) = 0 THEN EntsoeAnswer(200, "error", <<>>, 1)
            ELSE EntsoeAnswer(200, "live", prices, 1)

\* GET of /api/entsoe, for a supported country.  upstream.ok is FALSE when the
\* fetch throws or the response is not ok.
entsoeGET(apiKey, upstream) ==
    IF ~apiKey THEN EntsoeAnswer(200, "static", <<>>, 0)
    ELSE IF ~upstream.ok THEN EntsoeAnswer(500, "error", <<>>, 1)
    ELSE LET prices == parseENTSOEPrices(upstream.xml)
         IN IF Len(prices) = 0 THEN EntsoeAnswer(200, "error", <<>>, 1)
            ELSE EntsoeAnswer(200, "live", prices, 1)

(***************************************************************************)
(* The Electricity Maps route (carbon-intensity/route.ts) and the NESO     *)
(* route.  The upstream body is spread into the answer: carbonIntensity    *)
(* for type=latest, history for type=past-range, data for NESO.            *)
(***************************************************************************)
CarbonAnswer(status, source, body, upstreamRequests) ==
    [status |-> status,
     source |-> source,
     carbonIntensity |-> body.carbonIntensity,
     history |-> body.history,
     data |-> body.data,
     upstreamRequests |-> upstreamRequests]

NoBody == [carbonIntensity |-> Null, history |-> <<>>, data |-> <<>>]

\* GET of /api/carbon-intensity, for a request with a zone
carbonIntensityGET(apiKey, isConfiguredZone, upstream) ==
    IF ~apiKey THEN CarbonAnswer(200, "static", NoBody, 0)
    ELSE IF upstream.ok THEN CarbonAnswer(200, "live", upstream.body, 1)
    ELSE IF ~isConfiguredZone THEN CarbonAnswer(200, "error", NoBody, 1)
    ELSE CarbonAnswer(500, "error", NoBody, 1)

\* GET of /api/neso: no key is involved
nesoGET(upstream) ==
    IF upstream.ok THEN CarbonAnswer(200, "live", upstream.body, 1)
    ELSE CarbonAnswer(500, "error", NoBody, 1)

(***************************************************************************)
(* Requests served by the routes: a request is drawn with its environment  *)
(* (key configured or not) and the upstream's reply, and the handler runs. *)
(***************************************************************************)
RouteAmounts == {-5000, 0, 12000}

\* the Points of a Period: positions 1 .. n, every amount drawn
RoutePointLists ==
    UNION {{[k \in 1 .. n |-> [position |-> k, amount |-> a[k]]] : a \in [1 .. n -> RouteAmounts]}
           : n \in 1 .. MaxPoints}

RoutePeriods ==
    {[start |-> st, resolution |-> res, points |-> pts] :
        st \in {60, 120}, res \in {"PT60M", "PT15M"}, pts \in RoutePointLists}

\* a second Period of the document, starting before the hours of the first
EarlierPeriod ==
    [start |-> 0, resolution |-> "PT60M", points |-> <<[position |-> 1, amount |-> 7000]>>]

RouteXmls == {<<>>} \cup {<<p>> : p \in RoutePeriods} \cup {<<p, EarlierPeriod>> : p \in RoutePeriods}

RouteUpstreams == {[ok |-> FALSE, xml |-> <<>>]} \cup {[ok |-> TRUE, xml |-> x] : x \in RouteXmls}

LatestBody(value) == [carbonIntensity |-> Num(value), history |-> <<>>, data |-> <<>>]

CarbonUpstreams ==
    {[ok |-> FALSE, body |-> NoBody]} \cup {[ok |-> TRUE, body |-> LatestBody(v)] : v \in {0, 250000}}

InitRoute ==
    /\ CalcIdle
    /\ BatchIdle
    /\ UiIdle
    /\ CarbonIdle
    /\ PageIdle
    /\ routeCall = NoRequest

\* GET /api/entsoe?country=...
EntsoeRequest ==
    /\ \E apiKey \in BOOLEAN, upstream \in RouteUpstreams :
          routeCall' = [route |-> "entsoe", apiKey |-> apiKey, upstream |-> upstream,
                        response |-> entsoeGET(apiKey, upstream)]
    /\ UNCHANGED <<calcVars, batchVars, uiVars, carbonVars, pageVars>>

\* GET /api/carbon-intensity?zone=...
CarbonIntensityRequest ==
    /\ \E apiKey \in BOOLEAN, isConfiguredZone \in BOOLEAN, upstream \in CarbonUpstreams :
          routeCall' = [route |-> "carbon-intensity", apiKey |-> apiKey, upstream |-> upstream,
                        response |-> carbonIntensityGET(apiKey, isConfiguredZone, upstream)]
    /\ UNCHANGED <<calcVars, batchVars, uiVars, carbonVars, pageVars>>

NextRoute == EntsoeRequest \/ CarbonIntensityRequest

SpecRoute == InitRoute /\ [][NextRoute]_vars

(***************************************************************************)
(* The FlexibilityCalculator component, for one country.  The browser's    *)
(* time zone is UTC, so parseISO gives both datetime formats the instant   *)
(* they name.                                                              *)
(***************************************************************************)
LiveWindowDays == 30

\* parseISO(datetime), in minutes
Instant(datetime) == datetime.date * MinutesPerDay + datetime.minute

\* d >= start && d <= end, start = parseISO(startDate), end = endOfDay(parseISO(endDate))
InRange(instant, start, end) ==
    /\ instant >= start * MinutesPerDay
    /\ instant <= end * MinutesPerDay + (MinutesPerDay - 1)

filteredStaticData(d, start, end) ==
    LET Keep(h) == InRange(Instant(h.datetime), start, end)
    IN SelectSeq(d.recentHourly, Keep)

livePricesInRange(live, start, end) ==
    LET Keep(h) == InRange(Instant(h.datetime), start, end)
    IN SelectSeq(live, Keep)

\* combinedData of dateRangePriceMetrics
combinedData(d, start, end, live) ==
    LET static == filteredStaticData(d, start, end)
    IN IF Len(live) > 0
       THEN LET inRange == livePricesInRange(live, start, end)
                liveTimestamps == {inRange[i].datetime : i \in 1 .. Len(inRange)}
                Keep(p) == p.datetime \notin liveTimestamps
            IN SortByDatetime(SelectSeq(static, Keep) \o inRange)
       ELSE static

filteredDailyData(d, start, end) ==
    LET Keep(r) == InRange(r.date * MinutesPerDay, start, end)
    IN SelectSeq(d.dailyPrices, Keep)

\* the heuristic fraction of the daily spread, in percent
EstimateFraction(label) ==
    CASE label = "1h" -> 15 [] label = "2h" -> 25 [] label = "4h" -> 40 [] label = "8h" -> 60

RECURSIVE SumSpread(_)
SumSpread(daily) ==
    IF daily = <<>> THEN 0
    ELSE (Head(daily).maxPrice - Head(daily).minPrice) + SumSpread(Tail(daily))

RECURSIVE SumAvgPrice(_)
SumAvgPrice(daily) ==
    IF daily = <<>> THEN 0 ELSE Head(daily).avgPrice + SumAvgPrice(Tail(daily))

\* the estimate from daily spreads; the values are quotients, left unrounded
EstimatedMetrics(daily) ==
    [kind |-> "result",
     isEstimated |-> TRUE,
     dataPoints |-> Len(daily),
     m |-> [l \in WindowLabels |->
              [avgNum |-> SumSpread(daily) * EstimateFraction(l),
               avgDen |-> Len(daily) * 100,
               perGWhNum |-> SumSpread(daily) * EstimateFraction(l) * 10,
               perGWhDen |-> Len(daily) * 1000,
               pctNum |-> SumSpread(daily) * EstimateFraction(l),
               pctDen |-> SumAvgPrice(daily)]]]

\* the threshold test written <= instead of <
dateRangeOfCombinedInclusive(d, start, end, combined) ==
    IF Len(combined) <= MinPoints
    THEN LET daily == filteredDailyData(d, start, end)
         IN IF Len(daily) < 1 THEN Null ELSE EstimatedMetrics(daily)
    ELSE LET metrics == calculatePriceFlexibility(PricesOf(combined))
         IN IF IsNull(metrics) THEN Null
            ELSE [kind |-> "result", isEstimated |-> FALSE,
                  dataPoints |-> Len(combined), m |-> metrics.m]

\* dateRangePriceMetrics from combinedData on
dateRangeOfCombined(d, start, end, combined) ==
    IF Len(combined) < MinPoints
    THEN LET daily == filteredDailyData(d, start, end)
         IN IF Len(daily) < 1 THEN Null ELSE EstimatedMetrics(daily)
    ELSE LET metrics == calculatePriceFlexibility(PricesOf(combined))
         IN IF IsNull(metrics) THEN Null
            ELSE [kind |-> "result", isEstimated |-> FALSE,
                  dataPoints |-> Len(combined), m |-> metrics.m]

\* the useMemo value for the current state
dateRangePriceMetrics ==
    IF IsNull(data) THEN Null
    ELSE dateRangeOfCombined(data, startDate, endDate,
                             combinedData(data, startDate, endDate, livePriceData))

\* what the component renders: the spinner, the insufficient-data card, or metrics
Rendered ==
    IF loading \/ IsNull(data) THEN [screen |-> "loading"]
    ELSE LET priceMetrics == IF ~IsNull(dateRangePriceMetrics) THEN dateRangePriceMetrics
                             ELSE data.flexibilityMetrics
         IN IF IsNull(priceMetrics) THEN [screen |-> "insufficient"]
            ELSE [screen |-> "metrics", priceMetrics |-> priceMetrics]

---------------------------------------------------------------------------
\* The static files the batch script can have written: hourly prices of
\* consecutive hours from a start hour.
StaticPrice(hour) == 1000 + 100 * ((hour * 7) % 5)

LivePrice(hour) == 9000 + 100 * (hour % 3)

StaticStarts == {20, 24}

StaticLens == {0, 5} \cup ((MinPoints - 1) .. MaxStatic)

StaticPrices(first, len) ==
    LET hours == first .. (first + len - 1)
        keys == {CsvDatetime(h \div 24, (h % 24) * 60) : h \in hours}
    IN [k \in keys |-> StaticPrice(Instant(k) \div 60)]

StaticFiles == {BuildCountryData(StaticPrices(f, n)) : f \in StaticStarts, n \in StaticLens}

\* The ENTSO-E answers: hourly Periods of consecutive positions.
LivePeriod(first, len) ==
    [start |-> first * 60,
     resolution |-> "PT60M",
     points |-> [k \in 1 .. len |-> [position |-> k, amount |-> LivePrice(first + k - 1)]]]

LiveStarts == {24, 24 * MaxDay - 1}

LiveLens == {1, 2}

LivePeriods == {LivePeriod(f, n) : f \in LiveStarts, n \in LiveLens}

Xmls == {<<>>} \cup {<<p>> : p \in LivePeriods} \cup {<<p, q>> : p \in LivePeriods, q \in LivePeriods}

Upstreams == {[ok |-> FALSE, xml |-> <<>>]} \cup {[ok |-> TRUE, xml |-> x] : x \in Xmls}

Responses == {entsoeGET(k, u) : k \in BOOLEAN, u \in Upstreams}

DateChoices == 0 .. MaxDay

Presets == {7, 30, 90, 365}

InitHybrid ==
    /\ CalcIdle
    /\ BatchIdle
    /\ CarbonIdle
    /\ RouteIdle
    /\ PageIdle
    /\ today \in {MaxDay, MaxDay + LiveWindowDays}
    /\ data = Null
    /\ loading = TRUE
    /\ startDate = today - 30
    /\ endDate = today
    /\ livePriceData = <<>>
    /\ priceDataSource = "static"

\* fetch(`/data/${countryCode}.json`) resolves
DataLoaded ==
    /\ loading
    /\ \E file \in StaticFiles : data' = file
    /\ loading' = FALSE
    /\ UNCHANGED <<today, startDate, endDate, livePriceData, priceDataSource, calcVars, batchVars, carbonVars, routeVars, pageVars>>

\* fetch(`/data/${countryCode}.json`) rejects
DataFailed ==
    /\ loading
    /\ loading' = FALSE
    /\ UNCHANGED <<today, data, startDate, endDate, livePriceData, priceDataSource, calcVars, batchVars, carbonVars, routeVars, pageVars>>

\* the From input: min 2015-01-01, max endDate
SetStartDate ==
    /\ \E d \in DateChoices : d <= endDate /\ startDate' = d
    /\ UNCHANGED <<today, data, loading, endDate, livePriceData, priceDataSource, calcVars, batchVars, carbonVars, routeVars, pageVars>>

\* the To input: min startDate, max today
SetEndDate ==
    /\ \E d \in DateChoices : startDate <= d /\ d <= today /\ endDate' = d
    /\ UNCHANGED <<today, data, loading, startDate, livePriceData, priceDataSource, calcVars, batchVars, carbonVars, routeVars, pageVars>>

\* the 7d / 30d / 90d / 1y buttons
SelectPreset ==
    /\ \E days \in Presets : startDate' = today - days
    /\ endDate' = today
    /\ UNCHANGED <<today, data, loading, livePriceData, priceDataSource, calcVars, batchVars, carbonVars, routeVars, pageVars>>

\* fetchLivePrices: the effect and the answer of /api/entsoe (thrown: the fetch
\* rejects).  The effect may run again at any time (data, endDate or countryCode
\* changed, or the component remounted), and an answer is applied in one step.
FetchLivePrices ==
    /\ ~IsNull(data)
    /\ \E thrown \in BOOLEAN, result \in Responses :
          IF endDate > today - LiveWindowDays /\ ~thrown
             /\ result.source = "live" /\ Len(result.prices) > 0
          THEN /\ livePriceData' = result.prices
               /\ priceDataSource' = "hybrid"
          ELSE /\ livePriceData' = <<>>
               /\ priceDataSource' = "static"
    /\ UNCHANGED <<today, data, loading, startDate, endDate, calcVars, batchVars, carbonVars, routeVars, pageVars>>

NextHybrid ==
    \/ DataLoaded
    \/ DataFailed
    \/ SetStartDate
    \/ SetEndDate
    \/ SelectPreset
    \/ FetchLivePrices

SpecHybrid == InitHybrid /\ [][NextHybrid]_vars

(***************************************************************************)
(* Calculator runs: an input series is drawn and each calculator is        *)
(* applied to it.                                                          *)
(***************************************************************************)
Values == {-200, 0, 1200}

InputLens == {10} \cup ((MinPoints - 1) .. MaxLen)

\* An alternating series a, b, a, b, ... of length n with position p set to s.
InputSeries(n, a, b, p, s) ==
    [i \in 1 .. n |-> IF i = p THEN s ELSE IF i % 2 = 1 THEN a ELSE b]

Calculators == {"batch", "price", "carbon"}

\* The series 50, 40, 50, 40, ... of the documentation's example.
ExampleSeries(n) == [i \in 1 .. n |-> IF i % 2 = 1 THEN 50000 ELSE 40000]

InitCalc ==
    /\ BatchIdle
    /\ UiIdle
    /\ CarbonIdle
    /\ RouteIdle
    /\ PageIdle
    /\ \/ \E n \in InputLens, a \in Values, b \in Values, p \in 1 .. MaxLen, s \in Values :
             /\ p <= n
             /\ hourlyInput = InputSeries(n, a, b, p, s)
       \/ \E n \in InputLens : hourlyInput = ExampleSeries(n)
    /\ calcCall = NoCall

RunBatch ==
    /\ calcCall' = [fn |-> "batch", result |-> calculateFlexibilityMetrics(hourlyInput)]
    /\ UNCHANGED <<hourlyInput, batchVars, uiVars, carbonVars, routeVars, pageVars>>

RunPrice ==
    /\ calcCall' = [fn |-> "price", result |-> calculatePriceFlexibility(hourlyInput)]
    /\ UNCHANGED <<hourlyInput, batchVars, uiVars, carbonVars, routeVars, pageVars>>

RunCarbon ==
    /\ calcCall' = [fn |-> "carbon", result |-> calculateCarbonFlexibility(hourlyInput)]
    /\ UNCHANGED <<hourlyInput, batchVars, uiVars, carbonVars, routeVars, pageVars>>

NextCalc == RunBatch \/ RunPrice \/ RunCarbon

SpecCalc == InitCalc /\ [][NextCalc]_vars

(***************************************************************************)
(* Claims about the window savings calculator (checked under SpecCalc).    *)
(***************************************************************************)
Ran == calcCall.fn # "none"

HasMetrics == Ran /\ calcCall.result.kind = "metrics"

IsConstantSeries(v) == \A i \in 1 .. Len(v) : v[i] = v[1]

\* C1 (as claimed): for window sizes w1 < w2 the unrounded avgSavings of w2 is at
\* least that of w1.  Both share the denominator hourlyData.length.
C1_Monotone ==
    HasMetrics =>
        \A l1 \in WindowLabels, l2 \in WindowLabels :
            WindowOf(l1) < WindowOf(l2) =>
                calcCall.result.m[l2].avgNum * calcCall.result.m[l1].avgDen
                    >= calcCall.result.m[l1].avgNum * calcCall.result.m[l2].avgDen

\* The reference of C2: every index of the series, its window clipped to the series.
RefLocalMin(v, i, w) ==
    LET lo == MathMax(1, i - w)
        hi == MathMin(Len(v), i + w)
    IN CHOOSE x \in {v[j] : j \in lo .. hi} : \A j \in lo .. hi : x <= v[j]

RECURSIVE RefTotal(_, _, _)
RefTotal(v, w, i) ==
    IF i > Len(v) THEN 0
    ELSE MathMax(0, v[i] - RefLocalMin(v, i, w)) + RefTotal(v, w, i + 1)

\* C2 (as claimed): the unrounded avgSavings is the sum over all indices of
\* max(0, v[i] - clipped window minimum), divided by the series length.
C2_ReferenceFormula ==
    HasMetrics =>
        \A l \in WindowLabels :
            /\ calcCall.result.m[l].avgNum = RefTotal(hourlyInput, WindowOf(l), 1)
            /\ calcCall.result.m[l].avgDen = Len(hourlyInput)

\* C3: a series of fewer than 24 observations gives null, never a metric object;
\* a series of 24 or more gives exactly one metric per window 1h, 2h, 4h, 8h.
C3_InsufficientIsNull ==
    Ran =>
        /\ Len(hourlyInput) < 24 => IsNull(calcCall.result)
        /\ Len(hourlyInput) >= 24 =>
              /\ calcCall.result.kind = "metrics"
              /\ DOMAIN calcCall.result.m = {"1h", "2h", "4h", "8h"}

C3_Witness ==
    /\ calcCall.fn = "carbon"
    /\ Len(hourlyInput) = 23
    /\ IsNull(calcCall.result)

\* the per-index savings of the calculator that ran
SavingsOf(fn, v, i, w) ==
    CASE fn = "batch" -> BatchSavings(v, i, w)
      [] fn = "price" -> PriceSavings(v, i, w)
      [] fn = "carbon" -> CarbonSavings(v, i, w)

\* C8: every per-index savings current - localMin is >= 0, and avgSavings >= 0,
\* also for series with negative values.
C8_NonNegativeSavings ==
    Ran =>
        /\ \A l \in WindowLabels, i \in 1 .. Len(hourlyInput) :
              SavingsOf(calcCall.fn, hourlyInput, i, WindowOf(l)) >= 0
        /\ HasMetrics =>
              \A l \in WindowLabels :
                  /\ calcCall.result.m[l].totalSavings >= 0
                  /\ calcCall.result.m[l].avgNum >= 0
                  /\ calcCall.result.m[l].avgSavingsPerMWh >= 0

C8_Witness ==
    /\ calcCall.fn = "batch"
    /\ HasMetrics
    /\ \E i \in 1 .. Len(hourlyInput) : hourlyInput[i] < 0
    /\ calcCall.result.m["1h"].avgNum > 0

\* C9 (as claimed): a series of at least 24 equal values c, for every c including 0,
\* gives avgSavings = 0 and percentageOfAverage = 0, both numbers, for every window.
C9_DegenerateSeries ==
    (HasMetrics /\ IsConstantSeries(hourlyInput)) =>
        \A l \in WindowLabels :
            /\ calcCall.result.m[l].avgNum = 0
            /\ calcCall.result.m[l].avgSavingsPerMWh = 0
            /\ calcCall.result.m[l].percentageOfAvgPrice = Num(0)

\* what each of the three calculators returns for a series, reduced to the reported
\* fields (the carbon metric names its percentage percentageOfAvgCarbon)
ReportedFields(result) ==
    IF IsNull(result) THEN Null
    ELSE [kind |-> "metrics",
          m |-> [l \in DOMAIN result.m |->
                   [avgSavings |-> result.m[l].avgSavingsPerMWh,
                    perThousand |-> result.m[l].savingsPerGWh,
                    percentage |-> result.m[l].percentageOfAvgPrice]]]

\* C11: for every value sequence the batch, price and carbon calculators either all
\* return no result or all return, for each window, the same avgSavings, the same
\* per-thousand-units figure and the same percentage of the average.
C11_ThreeCalculatorsAgree ==
    Ran =>
        LET batch == ReportedFields(calculateFlexibilityMetrics(hourlyInput))
            price == ReportedFields(calculatePriceFlexibility(hourlyInput))
            carbon == ReportedFields(calculateCarbonFlexibility(hourlyInput))
        IN /\ ReportedFields(calcCall.result) = batch
           /\ batch = price
           /\ price = carbon
           /\ IsNull(batch) <=> Len(hourlyInput) < 24

C11_Witness ==
    /\ calcCall.fn = "carbon"
    /\ HasMetrics
    /\ calcCall.result.m["8h"].avgNum > calcCall.result.m["1h"].avgNum
    /\ calcCall.result.m["1h"].avgNum > 0

\* an alternating series H, L, H, L, ... of even length with H > L
IsAlternatingHighLow(v) ==
    /\ Len(v) % 2 = 0
    /\ Len(v) >= 2
    /\ v[1] > v[2]
    /\ \A i \in 1 .. Len(v) : v[i] = (IF i % 2 = 1 THEN v[1] ELSE v[2])

\* C19: for every even length n >= 24 and every H > L the series H, L, H, L, ... gives
\* at window 1 an avgSavings of (n/2 * (H - L)) / n = (H - L) / 2; 5.0 for 50 and 40.
C19_AlternatingWindowOne ==
    (HasMetrics /\ IsAlternatingHighLow(hourlyInput)) =>
        LET H == hourlyInput[1]
            L == hourlyInput[2]
            n == Len(hourlyInput)
            m == calcCall.result.m["1h"]
        IN /\ m.avgNum = (n \div 2) * (H - L)
           /\ m.avgDen = n
           /\ 2 * m.avgNum = (H - L) * m.avgDen
           /\ m.avgSavingsPerMWh = RoundPos((H - L) * 100, 2000)
           /\ (H = 50000 /\ L = 40000) => m.avgSavingsPerMWh = 500

C19_Witness ==
    /\ calcCall.fn = "price"
    /\ HasMetrics
    /\ hourlyInput = ExampleSeries(24)
    /\ calcCall.result.m["1h"].avgSavingsPerMWh = 500

(***************************************************************************)
(* Claims about the daily aggregator (checked under SpecBatch).            *)
(***************************************************************************)
\* the prices stored for a date
PricesOn(date) == {countryPrices[k] : k \in {x \in DOMAIN countryPrices : x.date = date}}

\* C10 (as claimed): every DailyRecord emitted has minPrice <= avgPrice <= maxPrice on
\* the reported values, and a date with a single observation v has all three equal to v.
C10_DailyOrdering ==
    batchPc = "written" =>
        \A i \in 1 .. Len(countryFile.dailyPrices) :
            LET r == countryFile.dailyPrices[i]
            IN /\ r.minPrice <= r.avgPrice
               /\ r.avgPrice <= r.maxPrice
               /\ Cardinality({k \in DOMAIN countryPrices : k.date = r.date}) = 1 =>
                     /\ r.avgPrice = r.minPrice
                     /\ r.avgPrice = r.maxPrice
                     /\ PricesOn(r.date) = {r.avgPrice}

(***************************************************************************)
(* Claims about the series normalizer, the daily aggregator and the        *)
(* summary of the batch script (checked under SpecBatch).                  *)
(***************************************************************************)
Written == batchPc \in {"written", "done"}

Done == batchPc = "done"

IsFiniteNumber(x) == x.kind = "num"

HasFinitePrice(row) == IsFiniteNumber(row.price)

HasFiniteValue(row) == IsFiniteNumber(row.value)

\* the sum of the stored values of a set of entries of countryCarbon
RECURSIVE SumOfEntries(_, _)
SumOfEntries(carbon, idx) ==
    IF idx = {} THEN 0
    ELSE LET i == CHOOSE x \in idx : TRUE
         IN JsPlus(carbon[i].value, SumOfEntries(carbon, idx \ {i}))

\* the sum of the stored prices of a set of datetimes, split at a middle datetime
RECURSIVE SumOfPrices(_, _)
SumOfPrices(prices, keys) ==
    IF keys = {} THEN 0
    ELSE IF Cardinality(keys) = 1 THEN prices[CHOOSE k \in keys : TRUE]
    ELSE LET middle == CHOOSE k \in keys :
                          Cardinality({j \in keys : Instant(j) < Instant(k)}) = Cardinality(keys) \div 2
             early == {j \in keys : Instant(j) < Instant(middle)}
         IN JsPlus(SumOfPrices(prices, early), SumOfPrices(prices, keys \ early))

\* the entries of countryCarbon that hold the (up to) CarbonDays latest dates
LatestCarbonEntries ==
    {i \in 1 .. Len(countryCarbon) :
        Cardinality({j \in 1 .. Len(countryCarbon) : countryCarbon[j].date > countryCarbon[i].date})
            < CarbonDays}

\* C12 (as claimed): for every row order of the carbon input, the summary's 7-day
\* carbon average is the mean (to 2 decimals) of the carbon values of the up to 7
\* latest dates present for the country.
C12_CarbonSummaryLatestDays ==
    (Done /\ Len(countryCarbon) > 0) =>
        summary.avgCarbon7d =
            JsNumber(RoundedMean(SumOfEntries(countryCarbon, LatestCarbonEntries),
                                 Cardinality(LatestCarbonEntries)))

\* C13 (as claimed): a price or carbon row whose value is unparsable, missing, NaN or
\* infinite never appears in the country's series, is never replaced by zero, and does
\* not affect any daily aggregate, summary value or flexibility metric: the series
\* holds only finite values of valid rows, and the country's file and the summary are
\* those of the input without the invalid rows.
C13_NonFiniteDropped ==
    Done =>
        /\ \A k \in DOMAIN countryPrices :
              /\ countryPrices[k] < InfinityVal
              /\ \E i \in 1 .. Len(priceData) :
                    /\ priceData[i].datetime = k
                    /\ HasFinitePrice(priceData[i])
                    /\ priceData[i].price.val = countryPrices[k]
        /\ \A e \in 1 .. Len(countryCarbon) :
              /\ countryCarbon[e].value < InfinityVal
              /\ \E i \in 1 .. Len(carbonData) :
                    /\ CarbonDate(carbonData[i].timestamp) = countryCarbon[e].date
                    /\ HasFiniteValue(carbonData[i])
                    /\ carbonData[i].value.val = countryCarbon[e].value
        /\ LET validPrices == FoldPrices(SelectSeq(priceData, HasFinitePrice), <<>>)
               validCarbon == FoldCarbon(SelectSeq(carbonData, HasFiniteValue), <<>>)
           IN /\ countryFile = BuildCountryData(validPrices)
              /\ summary = summaryOf(validPrices, validCarbon)

\* the rows of a datetime whose price parses (parseFloat gives a number)
ParsedRowsAt(datetime) ==
    {i \in 1 .. Len(priceData) : priceData[i].datetime = datetime /\ priceData[i].price.kind # "NaN"}

\* C14: when several price rows of the country carry the same timestamp, the series
\* holds exactly one observation for it, with the value of the last row in feed order
\* whose value parses; a later row with an unparsable value does not remove or change
\* the earlier observation.
C14_DuplicatesLastParsedWins ==
    Written =>
        LET hourlyPrices == HourlyPricesOf(countryPrices)
        IN \A r \in 1 .. Len(priceData) :
              LET datetime == priceData[r].datetime
                  parsed == ParsedRowsAt(datetime)
                  held == {i \in 1 .. Len(hourlyPrices) : hourlyPrices[i].datetime = datetime}
              IN IF parsed = {} THEN held = {}
                 ELSE LET last == CHOOSE i \in parsed : \A j \in parsed : j <= i
                      IN /\ Cardinality(held) = 1
                         /\ \A i \in held : hourlyPrices[i].price = StoredValue(priceData[last].price)

C14_Witness ==
    /\ Written
    /\ Len(priceData) = 3
    /\ \A i \in 1 .. 3 : priceData[i].datetime = CsvDatetime(0, 60)
    /\ priceData[1].price = Num(0)
    /\ priceData[2].price = Num(10004)
    /\ priceData[3].price = NaN
    /\ countryFile.recentHourly = <<[datetime |-> CsvDatetime(0, 60), price |-> 10004]>>

\* a feed that is already a normalized series: finite values, ascending, one row per
\* timestamp
IsNormalizedFeed(rows) ==
    /\ \A i \in 1 .. Len(rows) : HasFinitePrice(rows[i])
    /\ \A i \in 1 .. Len(rows) - 1 : Instant(rows[i].datetime) < Instant(rows[i + 1].datetime)

\* the observations of a feed, and the rows that hold a series
ObservationsOf(rows) ==
    [i \in 1 .. Len(rows) |-> [datetime |-> rows[i].datetime, price |-> StoredValue(rows[i].price)]]

RowsOfSeries(series) ==
    [i \in 1 .. Len(series) |-> [datetime |-> series[i].datetime, price |-> JsNumber(series[i].price)]]

\* C15: normalizing a series that is already normalized returns the same observations
\* in the same order: a normalized feed comes out as it went in, and the series the
\* script built comes out unchanged when it is normalized again.
C15_NormalizationIdempotent ==
    Written =>
        LET hourlyPrices == HourlyPricesOf(countryPrices)
        IN /\ IsNormalizedFeed(priceData) => hourlyPrices = ObservationsOf(priceData)
           /\ Normalize(RowsOfSeries(hourlyPrices)) = hourlyPrices

C15_Witness ==
    /\ Written
    /\ Len(priceData) = RecentHours + 1
    /\ IsNormalizedFeed(priceData)
    /\ Len(countryFile.recentHourly) = RecentHours

\* C16: the aggregator emits exactly one DailyRecord for each distinct calendar date
\* with at least one observation, none for a date without observations, and the
\* records are in strictly ascending date order.
C16_DailySparseOrdered ==
    Written =>
        LET hourlyPrices == HourlyPricesOf(countryPrices)
            records == dailyPriceArray(hourlyPrices)
            dates == {k.date : k \in DOMAIN countryPrices}
        IN /\ Len(records) = Cardinality(dates)
           /\ {records[i].date : i \in 1 .. Len(records)} = dates
           /\ \A i \in 1 .. Len(records) - 1 : records[i].date < records[i + 1].date
           /\ countryFile.dailyPrices = records

C16_Witness ==
    /\ Written
    /\ Len(countryFile.dailyPrices) = 2
    /\ countryFile.dailyPrices[1].date = 0
    /\ countryFile.dailyPrices[2].date = 2
    /\ priceData[1].datetime = CsvDatetime(2, 0)
    /\ Cardinality(DOMAIN countryPrices) = 3

\* the datetimes of the (up to) RecentHours latest observations
LatestPriceKeys ==
    {k \in DOMAIN countryPrices :
        Cardinality({j \in DOMAIN countryPrices : Instant(j) > Instant(k)}) < RecentHours}

\* C17: for every row order of the price input, currentPrice is the price at the
\* latest timestamp of the country's series and avgPrice7d is the mean, rounded to 2
\* decimals, of the up to 168 latest-timestamped hourly prices.
C17_PriceSummary ==
    (Done /\ DOMAIN countryPrices # {}) =>
        LET latest == CHOOSE k \in DOMAIN countryPrices :
                         \A j \in DOMAIN countryPrices : Instant(j) <= Instant(k)
            window == LatestPriceKeys
        IN /\ summary.currentPrice = JsNumber(countryPrices[latest])
           /\ summary.avgPrice7d =
                 JsNumber(RoundedMean(SumOfPrices(countryPrices, window), Cardinality(window)))

C17_Witness ==
    /\ Done
    /\ Len(priceData) = RecentHours + 2
    /\ priceData[1].datetime = CsvDatetime(7, 0)
    /\ Cardinality(LatestPriceKeys) = RecentHours
    /\ CsvDatetime(0, 60) \notin LatestPriceKeys
    /\ summary.currentPrice = Num(LongPrice(RecentHours + 1))

\* C18: with no valid observation in the summary window, currentPrice and the 7-day
\* averages are null; with a non-empty window of real zero readings they are the
\* number 0, never null.
C18_EmptyWindowAbsent ==
    Done =>
        /\ DOMAIN countryPrices = {} =>
              /\ summary.currentPrice = Null
              /\ summary.avgPrice7d = Null
        /\ Len(countryCarbon) = 0 => summary.avgCarbon7d = Null
        /\ (DOMAIN countryPrices # {} /\ \A k \in DOMAIN countryPrices : countryPrices[k] = 0) =>
              /\ summary.currentPrice = Num(0)
              /\ summary.avgPrice7d = Num(0)
        /\ (Len(countryCarbon) > 0 /\ \A i \in 1 .. Len(countryCarbon) : countryCarbon[i].value = 0) =>
              summary.avgCarbon7d = Num(0)

C18_Witness ==
    /\ Done
    /\ Cardinality(DOMAIN countryPrices) = 2
    /\ \A k \in DOMAIN countryPrices : countryPrices[k] = 0
    /\ summary.currentPrice = Num(0)
    /\ summary.avgPrice7d = Num(0)
    /\ Len(countryCarbon) = 0
    /\ summary.avgCarbon7d = Null

(***************************************************************************)
(* Claims about the hybrid merge of FlexibilityCalculator (checked under   *)
(* SpecHybrid).                                                            *)
(***************************************************************************)
Loaded == ~loading /\ ~IsNull(data)

StaticInRange == filteredStaticData(data, startDate, endDate)

LiveInRange == livePricesInRange(livePriceData, startDate, endDate)

Merged == combinedData(data, startDate, endDate, livePriceData)

DailyInRange == filteredDailyData(data, startDate, endDate)

\* C4 (as claimed): with fewer than 24 merged hourly points and no daily record in the
\* requested window, the component shows the insufficient-data card and no metrics.
C4_NoResultWithoutDaily ==
    (Loaded /\ Len(Merged) < 24 /\ Len(DailyInRange) < 1) => Rendered.screen = "insufficient"

\* C5: a date-range result is flagged estimated exactly when the merged series has
\* fewer than 24 points, and then comes from the daily records; otherwise it is the
\* exact calculator's result and dataPoints is the merged length.  24 points are exact.
C5_Provenance ==
    ~IsNull(data) =>
        LET merged == Merged
            result == dateRangeOfCombined(data, startDate, endDate, merged)
        IN ~IsNull(result) =>
              /\ result.isEstimated <=> Len(merged) < 24
              /\ Len(merged) = 24 => ~result.isEstimated
              /\ result.isEstimated =>
                    /\ result.dataPoints = Len(DailyInRange)
                    /\ result.m = EstimatedMetrics(DailyInRange).m
              /\ ~result.isEstimated =>
                    /\ result.dataPoints = Len(merged)
                    /\ result.m = calculatePriceFlexibility(PricesOf(merged)).m

C5_Witness ==
    /\ ~IsNull(data)
    /\ Len(Merged) = 24
    /\ Len(LiveInRange) > 0
    /\ ~IsNull(dateRangePriceMetrics)
    /\ ~dateRangePriceMetrics.isEstimated
    /\ dateRangePriceMetrics.dataPoints = 24

\* C6 (as claimed): for a timestamp in the window held by both the static and the live
\* series, the merged series holds the live value there and no observation with the
\* static value; static observations at other timestamps are kept.
C6_LiveWins ==
    ~IsNull(data) =>
        /\ \A i \in 1 .. Len(StaticInRange), j \in 1 .. Len(LiveInRange) :
              Instant(StaticInRange[i].datetime) = Instant(LiveInRange[j].datetime) =>
                 /\ \E k \in 1 .. Len(Merged) :
                       /\ Instant(Merged[k].datetime) = Instant(LiveInRange[j].datetime)
                       /\ Merged[k].price = LiveInRange[j].price
                 /\ \A k \in 1 .. Len(Merged) :
                       Instant(Merged[k].datetime) = Instant(StaticInRange[i].datetime) =>
                          Merged[k].price # StaticInRange[i].price
        /\ \A i \in 1 .. Len(StaticInRange) :
              (\A j \in 1 .. Len(LiveInRange) :
                  Instant(StaticInRange[i].datetime) # Instant(LiveInRange[j].datetime)) =>
                 \E k \in 1 .. Len(Merged) : Merged[k] = StaticInRange[i]

\* C7 (as claimed): the merged series is strictly increasing by timestamp.
C7_StrictlyIncreasing ==
    ~IsNull(data) =>
        \A k \in 1 .. Len(Merged) - 1 :
            Instant(Merged[k].datetime) < Instant(Merged[k + 1].datetime)

\* Whether the fields of one window of a reported metric follow the precision
\* policy.  An exact metric holds its rounded fields as counts of hundredths and
\* of units; an estimated one holds quotients of values in thousandths.
IsHundredths(x) == x.kind = "num" /\ x.val \in Int

ExactFollowsPolicy(m) ==
    /\ m.avgSavingsPerMWh \in Int
    /\ m.savingsPerGWh \in Int
    /\ IsHundredths(m.percentageOfAvgPrice)

EstimateFollowsPolicy(m) ==
    /\ m.avgNum % (m.avgDen * 10) = 0
    /\ m.perGWhNum % m.perGWhDen = 0
    /\ m.pctDen # 0
    /\ (m.pctNum * 100) % m.pctDen = 0

\* C20 (as claimed): in every metric the component reports, computed from the
\* hourly series or estimated from the daily spreads, avgSavingsPerMWh and
\* percentageOfAvgPrice are multiples of 0.01 and savingsPerGWh is an integer.
C20_PrecisionPolicy ==
    Rendered.screen = "metrics" =>
        LET priceMetrics == Rendered.priceMetrics
        IN \A l \in WindowLabels :
              IF priceMetrics.kind = "result" /\ priceMetrics.isEstimated
              THEN EstimateFollowsPolicy(priceMetrics.m[l])
              ELSE ExactFollowsPolicy(priceMetrics.m[l])

(***************************************************************************)
(* The Home page (page.tsx): summary.json and the European averages of the *)
(* stats overview.  summary.json is JSON, so an average in it is a number  *)
(* or null.                                                                *)
(***************************************************************************)
Countries == {"DEU", "GBR"}

SummaryCountries == Countries \cup {"FRA"}

\* c.avgPrice7d || 0
OrZero(x) == IF x.kind = "num" THEN x.val ELSE 0

\* filter(c => c.avgPrice7d): the value is truthy
Truthy(x) == x.kind = "num" /\ x.val # 0

\* the test of the value against null instead of its truthiness
NotNull(x) == x.kind # "null"

RECURSIVE SumOver(_, _, _)
SumOver(summaryOfAll, field, countries) ==
    IF countries = {} THEN 0
    ELSE LET c == CHOOSE c \in countries : TRUE
         IN OrZero(summaryOfAll[c][field]) + SumOver(summaryOfAll, field, countries \ {c})

\* Math.round(Object.values(summaryData).reduce((s, c) => s + (c[field] || 0), 0) /
\*            Object.values(summaryData).filter(c => c[field]).length)
EuropeanAverage(summaryOfAll, field) ==
    MathRoundDiv(SumOver(summaryOfAll, field, DOMAIN summaryOfAll),
                 1000 * Cardinality({c \in DOMAIN summaryOfAll : Truthy(summaryOfAll[c][field])}))

\* what the stats overview shows; Null while it is not rendered
StatsOverview ==
    IF ~IsNull(summaryData) /\ ~homeLoading
    THEN [kind |-> "stats",
          countriesTracked |-> Cardinality(DOMAIN summaryData.countries),
          avgCarbonIntensity |-> EuropeanAverage(summaryData.countries, "avgCarbon7d"),
          avgElectricityPrice |-> EuropeanAverage(summaryData.countries, "avgPrice7d")]
    ELSE Null

SummaryValues == {Null, Num(0), Num(40000), Num(101000)}

SummaryEntries ==
    {[kind |-> "summary", currentPrice |-> p, avgPrice7d |-> p, avgCarbon7d |-> c] :
        p \in SummaryValues, c \in SummaryValues}

Summaries == {[kind |-> "summaryData", countries |-> f] : f \in [SummaryCountries -> SummaryEntries]}

InitHome ==
    /\ CalcIdle
    /\ BatchIdle
    /\ UiIdle
    /\ CarbonIdle
    /\ RouteIdle
    /\ deployment = NoDeployment
    /\ mounted = {}
    /\ summaryData = Null
    /\ homeLoading = TRUE
    /\ selectedCountry = NoCountry
    /\ dashboard = DashboardInitial
    /\ refresh = NotRefreshing
    /\ fetches = EmptyBag

\* fetch('/data/summary.json') resolves
SummaryLoaded ==
    /\ homeLoading
    /\ \E file \in Summaries : summaryData' = file
    /\ homeLoading' = FALSE
    /\ UNCHANGED <<deployment, mounted, selectedCountry, dashboard, refresh, fetches,
                   calcVars, batchVars, uiVars, carbonVars, routeVars>>

\* fetch('/data/summary.json') rejects
SummaryFailed ==
    /\ homeLoading
    /\ homeLoading' = FALSE
    /\ UNCHANGED <<deployment, mounted, summaryData, selectedCountry, dashboard, refresh, fetches,
                   calcVars, batchVars, uiVars, carbonVars, routeVars>>

NextHome == SummaryLoaded \/ SummaryFailed

SpecHome == InitHome /\ [][NextHome]_vars

(***************************************************************************)
(* The page with a country selected: Home's selection, the Dashboard and   *)
(* the FlexibilityCalculator (its static-data and hourly-carbon effects).  *)
(* An effect's fetch is in flight from the commit that runs the effect to  *)
(* the step in which its answer is handled; the route's handler runs in    *)
(* that step.  State updates made in one continuation are one render       *)
(* (React 18 batching).  Timestamps (fetchedAt), the data-type labels and  *)
(* the api labels of dataSource are left out.                              *)
(*                                                                         *)
(* Dashboard and FlexibilityCalculator share the countryCode prop and      *)
(* nothing else, so each is followed under Home on its own: SpecPage is    *)
(* Home with the Dashboard, SpecCarbon is Home with the                    *)
(* FlexibilityCalculator.  The calculator's live-price effect is the       *)
(* subject of SpecHybrid and does not run here.                            *)
(***************************************************************************)
AllKeys == [entsoe |-> TRUE, electricityMaps |-> TRUE]

\* the deployments: which keys are configured and which countries have a file
\* under /data
Deployments ==
    {[keys |-> NoKeys, files |-> {"DEU"}],
     [keys |-> AllKeys, files |-> Countries]}

\* the hour the ENTSO-E document of a country's area starts at
AreaStart(c) == IF c = "GBR" THEN 25 ELSE 24

EntsoeXmlOf(c) == <<LivePeriod(AreaStart(c), 1)>>

EntsoeUpstreamsOf(c) ==
    {[ok |-> FALSE, xml |-> <<>>], [ok |-> TRUE, xml |-> <<>>], [ok |-> TRUE, xml |-> EntsoeXmlOf(c)]}

\* the carbon intensity the upstream services report for a country
IntensityOf(c) == IF c = "GBR" THEN 180000 ELSE 350000

LatestUpstreamsOf(c) ==
    {[ok |-> FALSE, body |-> NoBody], [ok |-> TRUE, body |-> LatestBody(IntensityOf(c))]}

\* result.data of NESO, each item given by its intensity.actual || intensity.forecast
NesoBody(values) == [carbonIntensity |-> Null, history |-> <<>>, data |-> values]

\* result.history of Electricity Maps, each item given by its carbonIntensity
HistoryBody(values) == [carbonIntensity |-> Null, history |-> values, data |-> <<>>]

HourlyIntensities(n) == [i \in 1 .. n |-> IF i % 2 = 1 THEN 1200 ELSE 1000]

NesoCurrentUpstreams ==
    {[ok |-> FALSE, body |-> NoBody],
     [ok |-> TRUE, body |-> NesoBody(<<>>)],
     [ok |-> TRUE, body |-> NesoBody(<<IntensityOf("GBR")>>)]}

NesoHistoryUpstreams ==
    {[ok |-> FALSE, body |-> NoBody],
     [ok |-> TRUE, body |-> NesoBody(HourlyIntensities(MinPoints - 1))],
     [ok |-> TRUE, body |-> NesoBody(HourlyIntensities(MinPoints))]}

PastRangeUpstreams ==
    {[ok |-> FALSE, body |-> NoBody],
     [ok |-> TRUE, body |-> HistoryBody(HourlyIntensities(MinPoints - 1))],
     [ok |-> TRUE, body |-> HistoryBody(HourlyIntensities(MinPoints))]}

\* /data/${countryCode}.json as the batch script writes it.  carbonFlexibilityMetrics
\* is the optional field of the component's CountryData; the file of GBR has it.
CountryDataOf(c) ==
    LET built == BuildCountryData(StaticPrices(AreaStart(c), 2))
    IN [kind |-> "countryData",
        iso3 |-> c,
        recentHourly |-> built.recentHourly,
        dailyPrices |-> built.dailyPrices,
        carbonIntensity |-> <<[date |-> 1, carbonIntensity |-> IntensityOf(c) + 5000]>>,
        flexibilityMetrics |-> built.flexibilityMetrics,
        carbonFlexibilityMetrics |->
            IF c = "GBR" THEN calculateCarbonFlexibility(HourlyIntensities(MinPoints + 1))
            ELSE Null]

\* a summary.json already loaded by Home
LoadedSummary ==
    [kind |-> "summaryData",
     countries |-> [c \in SummaryCountries |->
                      [kind |-> "summary", currentPrice |-> Num(40000),
                       avgPrice7d |-> Num(40000), avgCarbon7d |-> Num(IntensityOf(c))]]]

\* a request of an effect; data is the data the effect's closure holds
Fetch(owner, kind, countryCode, closureData) ==
    [owner |-> owner, kind |-> kind, countryCode |-> countryCode, data |-> closureData]

Pending(owner, kind) ==
    {f \in BagToSet(fetches) : f.owner = owner /\ f.kind = kind}

Settle(f) == fetches (-) SetToBag({f})

\* ---- Dashboard: the continuations of its effects, as functions of its state ----

\* .then(countryData => { setData; setDataSource(priceSource: 'static'); setLoading(false) })
dataLoaded(d, countryData) ==
    [d EXCEPT !.data = countryData,
              !.dataSource.priceSource = "static",
              !.loading = FALSE]

\* .catch(err => { setLoading(false) })
dataFailed(d) == [d EXCEPT !.loading = FALSE]

\* setLivePrices({...}) and setDataSource(priceSource: 'live')
withLivePrices(d, result) ==
    [d EXCEPT !.livePrices = [kind |-> "live", api |-> "ENTSO-E",
                              prices |-> result.prices, stats |-> result.stats],
              !.dataSource.priceSource = "live"]

\* fetchLivePrices after the await; thrown: fetch or response.json() rejected
livePricesAnswered(d, thrown, result) ==
    IF ~thrown /\ result.source = "live" /\ Len(result.prices) > 0
    THEN withLivePrices(d, result)
    ELSE [d EXCEPT !.dataSource.priceSource = "static"]

\* setLiveCarbon({...}) and setDataSource(carbonSource: 'live')
withLiveCarbon(d, api, value) ==
    [d EXCEPT !.liveCarbon = [kind |-> "live", api |-> api, carbonIntensity |-> value],
              !.dataSource.carbonSource = "live"]

\* fetchLiveCarbon after the await of /api/neso (countryCode === 'GBR')
nesoCarbonAnswered(d, thrown, result) ==
    IF thrown THEN [d EXCEPT !.dataSource.carbonSource = "static"]
    ELSE IF result.source = "live" /\ Len(result.data) > 0
    THEN withLiveCarbon(d, "NESO", Num(result.data[1]))
    ELSE d

\* fetchLiveCarbon after the await of /api/carbon-intensity
zoneCarbonAnswered(d, thrown, result) ==
    IF ~thrown /\ result.source = "live"
    THEN withLiveCarbon(d, "Electricity Maps", result.carbonIntensity)
    ELSE [d EXCEPT !.dataSource.carbonSource = "static"]

\* handleRefresh after the await of /api/entsoe
refreshPricesAnswered(d, thrown, result) ==
    IF ~thrown /\ result.source = "live" /\ Len(result.prices) > 0
    THEN withLivePrices(d, result)
    ELSE d

\* handleRefresh after the await of the carbon request, but with setRefreshing(false)
\* inside the try block
refreshCarbonAnsweredInTry(d, countryCode, thrown, result) ==
    IF thrown THEN d
    ELSE [(IF countryCode = "GBR"
           THEN IF result.source = "live" /\ Len(result.data) > 0
                THEN withLiveCarbon(d, "NESO", Num(result.data[1]))
                ELSE d
           ELSE IF result.source = "live"
                THEN withLiveCarbon(d, "Electricity Maps", result.carbonIntensity)
                ELSE d)
          EXCEPT !.refreshing = FALSE]

\* handleRefresh after the await of the carbon request, to its end: setRefreshing(false)
refreshCarbonAnswered(d, countryCode, thrown, result) ==
    [(IF thrown THEN d
      ELSE IF countryCode = "GBR"
      THEN IF result.source = "live" /\ Len(result.data) > 0
           THEN withLiveCarbon(d, "NESO", Num(result.data[1]))
           ELSE d
      ELSE IF result.source = "live"
           THEN withLiveCarbon(d, "Electricity Maps", result.carbonIntensity)
           ELSE d)
     EXCEPT !.refreshing = FALSE]

\* ---- Dashboard: what it renders ----
DashboardScreen ==
    IF dashboard.loading THEN "loading"
    ELSE IF IsNull(dashboard.data) THEN "failed"
    ELSE "main"

HasLivePrices == ~IsNull(dashboard.livePrices) /\ Len(dashboard.livePrices.prices) > 0

\* livePrices?.prices && livePrices.prices.length > 0 ? livePrices.prices : data.recentHourly
hourlyPriceData ==
    IF HasLivePrices THEN dashboard.livePrices.prices ELSE dashboard.data.recentHourly

\* liveCarbon?.carbonIntensity ?? (last static carbon intensity, or null)
currentCarbon ==
    IF ~IsNull(dashboard.liveCarbon) /\ ~IsNull(dashboard.liveCarbon.carbonIntensity)
    THEN dashboard.liveCarbon.carbonIntensity
    ELSE IF Len(dashboard.data.carbonIntensity) > 0
    THEN Num(dashboard.data.carbonIntensity[Len(dashboard.data.carbonIntensity)].carbonIntensity)
    ELSE Null

\* ---- FlexibilityCalculator: fetchHourlyCarbonData after its await ----

\* the fallback that labels the metrics 'calculated' whether or not the file has them
carbonFallbackAlwaysCalculated(closureData) ==
    [metrics |-> closureData.carbonFlexibilityMetrics, source |-> "calculated"]

\* if (data?.carbonFlexibilityMetrics) {...} else {...}
carbonFallback(closureData) ==
    IF ~IsNull(closureData.carbonFlexibilityMetrics)
    THEN [metrics |-> closureData.carbonFlexibilityMetrics, source |-> "calculated"]
    ELSE [metrics |-> Null, source |-> "estimated"]

\* the pair (calculatedCarbonMetrics, carbonDataSource) fetchHourlyCarbonData sets;
\* series is result.data (NESO) or result.history (Electricity Maps)
hourlyCarbonAnswered(closureData, thrown, result, series) ==
    LET metrics == IF ~thrown /\ result.source = "live" /\ Len(series) > 0
                   THEN calculateCarbonFlexibility(series)
                   ELSE Null
    IN IF ~IsNull(metrics) THEN [metrics |-> metrics, source |-> "calculated"]
       ELSE carbonFallback(closureData)

\* the values the hourlyCarbonData prop is given; Null is undefined
CarbonProps ==
    {Null,
     [kind |-> "series", values |-> HourlyIntensities(MinPoints - 1)],
     [kind |-> "series", values |-> HourlyIntensities(MinPoints + 2)]}

\* Home with summary.json loaded and no country selected yet
InitSelection ==
    /\ CalcIdle
    /\ BatchIdle
    /\ CarbonIdle
    /\ RouteIdle
    /\ today = MaxDay
    /\ data = Null
    /\ loading = TRUE
    /\ startDate = today - 30
    /\ endDate = today
    /\ livePriceData = <<>>
    /\ priceDataSource = "static"
    /\ deployment \in Deployments
    /\ summaryData = LoadedSummary
    /\ homeLoading = FALSE
    /\ selectedCountry = NoCountry
    /\ dashboard = DashboardInitial
    /\ refresh = NotRefreshing
    /\ fetches = EmptyBag

InitPage == InitSelection /\ mounted = {"Dashboard"}

InitCarbon == InitSelection /\ mounted = {"FlexibilityCalculator"}

\* the requests Dashboard's three [countryCode] effects start
DashboardEffects(c) ==
    {Fetch("Dashboard", "data", c, Null),
     Fetch("Dashboard", "prices", c, Null),
     Fetch("Dashboard", "carbon", c, Null)}

\* the requests FlexibilityCalculator's [countryCode] and [countryCode, data] effects
\* start; the latter fetches only when the component holds data
CalculatorEffects(c) ==
    {Fetch("FlexibilityCalculator", "data", c, Null)}
        \cup (IF IsNull(data) THEN {}
              ELSE {Fetch("FlexibilityCalculator", "hourlyCarbon", c, data)})

\* onSelectCountry / onClick of a country button: setSelectedCountry(iso3), and the
\* effects the commit runs.  The children mount at the first selection and are kept
\* afterwards; their [countryCode] effects run again when the country changes.  The
\* user selects while at most MaxStale requests are still in flight.
SelectCountry ==
    /\ BagCardinality(fetches) <= MaxStale
    /\ \E c \in Countries :
          /\ c # selectedCountry
          /\ selectedCountry' = c
          /\ dashboard' = IF "Dashboard" \in mounted
                          THEN [dashboard EXCEPT !.loading = TRUE]
                          ELSE dashboard
          /\ loading' = IF "FlexibilityCalculator" \in mounted THEN TRUE ELSE loading
          /\ fetches' = fetches (+) SetToBag(
                 (IF "Dashboard" \in mounted THEN DashboardEffects(c) ELSE {})
                 \cup (IF "FlexibilityCalculator" \in mounted THEN CalculatorEffects(c) ELSE {}))
    /\ UNCHANGED <<deployment, mounted, summaryData, homeLoading, refresh, today, data,
                   startDate, endDate, livePriceData, priceDataSource,
                   calcVars, batchVars, carbonVars, routeVars>>

\* Dashboard: fetch(`/data/${countryCode}.json`) settles
DashboardDataSettled ==
    /\ \E f \in Pending("Dashboard", "data") :
          /\ dashboard' = IF f.countryCode \in deployment.files
                          THEN dataLoaded(dashboard, CountryDataOf(f.countryCode))
                          ELSE dataFailed(dashboard)
          /\ fetches' = Settle(f)
    /\ UNCHANGED <<deployment, mounted, summaryData, homeLoading, selectedCountry, refresh, uiVars,
                   calcVars, batchVars, carbonVars, routeVars>>

\* Dashboard: the fetch of /api/entsoe in fetchLivePrices settles
LivePricesAnswered ==
    /\ \E f \in Pending("Dashboard", "prices") :
          /\ \E thrown \in BOOLEAN, upstream \in EntsoeUpstreamsOf(f.countryCode) :
                dashboard' = livePricesAnswered(dashboard, thrown,
                                                entsoeGET(deployment.keys.entsoe, upstream))
          /\ fetches' = Settle(f)
    /\ UNCHANGED <<deployment, mounted, summaryData, homeLoading, selectedCountry, refresh, uiVars,
                   calcVars, batchVars, carbonVars, routeVars>>

\* Dashboard: the fetch of /api/neso or /api/carbon-intensity in fetchLiveCarbon settles
LiveCarbonAnswered ==
    /\ \E f \in Pending("Dashboard", "carbon") :
          /\ \E thrown \in BOOLEAN :
                IF f.countryCode = "GBR"
                THEN \E upstream \in NesoCurrentUpstreams :
                        dashboard' = nesoCarbonAnswered(dashboard, thrown, nesoGET(upstream))
                ELSE \E upstream \in LatestUpstreamsOf(f.countryCode), isConfiguredZone \in BOOLEAN :
                        dashboard' = zoneCarbonAnswered(dashboard, thrown,
                                        carbonIntensityGET(deployment.keys.electricityMaps,
                                                           isConfiguredZone, upstream))
          /\ fetches' = Settle(f)
    /\ UNCHANGED <<deployment, mounted, summaryData, homeLoading, selectedCountry, refresh, uiVars,
                   calcVars, batchVars, carbonVars, routeVars>>

\* Dashboard: the Refresh button, enabled while not refreshing: handleRefresh to its
\* first await
RefreshClicked ==
    /\ DashboardScreen = "main"
    /\ ~dashboard.refreshing
    /\ dashboard' = [dashboard EXCEPT !.refreshing = TRUE]
    /\ refresh' = [pc |-> "prices", countryCode |-> selectedCountry]
    /\ UNCHANGED <<deployment, mounted, summaryData, homeLoading, selectedCountry, fetches, uiVars,
                   calcVars, batchVars, carbonVars, routeVars>>

\* handleRefresh: from the answer of /api/entsoe to the await of the carbon request
RefreshPricesAnswered ==
    /\ refresh.pc = "prices"
    /\ \E thrown \in BOOLEAN, upstream \in EntsoeUpstreamsOf(refresh.countryCode) :
          dashboard' = refreshPricesAnswered(dashboard, thrown,
                                             entsoeGET(deployment.keys.entsoe, upstream))
    /\ refresh' = [refresh EXCEPT !.pc = "carbon"]
    /\ UNCHANGED <<deployment, mounted, summaryData, homeLoading, selectedCountry, fetches, uiVars,
                   calcVars, batchVars, carbonVars, routeVars>>

\* handleRefresh: from the answer of the carbon request to the end
RefreshCarbonAnswered ==
    /\ refresh.pc = "carbon"
    /\ \E thrown \in BOOLEAN :
          IF refresh.countryCode = "GBR"
          THEN \E upstream \in NesoCurrentUpstreams :
                  dashboard' = refreshCarbonAnswered(dashboard, refresh.countryCode, thrown,
                                                     nesoGET(upstream))
          ELSE \E upstream \in LatestUpstreamsOf(refresh.countryCode), isConfiguredZone \in BOOLEAN :
                  dashboard' = refreshCarbonAnswered(dashboard, refresh.countryCode, thrown,
                                  carbonIntensityGET(deployment.keys.electricityMaps,
                                                     isConfiguredZone, upstream))
    /\ refresh' = NotRefreshing
    /\ UNCHANGED <<deployment, mounted, summaryData, homeLoading, selectedCountry, fetches, uiVars,
                   calcVars, batchVars, carbonVars, routeVars>>

\* FlexibilityCalculator: fetch(`/data/${countryCode}.json`) settles.  New data runs
\* the [countryCode, data] effect, which fetches for the current countryCode.
CalculatorDataSettled ==
    /\ \E f \in Pending("FlexibilityCalculator", "data") :
          IF f.countryCode \in deployment.files
          THEN /\ data' = CountryDataOf(f.countryCode)
               /\ fetches' = Settle(f) (+) SetToBag({Fetch("FlexibilityCalculator", "hourlyCarbon",
                                                            selectedCountry, data')})
          ELSE /\ data' = data
               /\ fetches' = Settle(f)
    /\ loading' = FALSE
    /\ UNCHANGED <<deployment, mounted, summaryData, homeLoading, selectedCountry, dashboard, refresh,
                   today, startDate, endDate, livePriceData, priceDataSource,
                   calcVars, batchVars, carbonVars, routeVars>>

\* FlexibilityCalculator: the fetch of fetchHourlyCarbonData settles, and the function
\* runs to its end
HourlyCarbonAnswered ==
    /\ \E f \in Pending("FlexibilityCalculator", "hourlyCarbon") :
          /\ \E thrown \in BOOLEAN :
                LET Apply(result, series) ==
                        LET set == hourlyCarbonAnswered(f.data, thrown, result, series)
                        IN /\ calculatedCarbonMetrics' = set.metrics
                           /\ carbonDataSource' = set.source
                IN IF f.countryCode = "GBR"
                   THEN \E upstream \in NesoHistoryUpstreams :
                           Apply(nesoGET(upstream), nesoGET(upstream).data)
                   ELSE \E upstream \in PastRangeUpstreams, isConfiguredZone \in BOOLEAN :
                           LET result == carbonIntensityGET(deployment.keys.electricityMaps,
                                                            isConfiguredZone, upstream)
                           IN Apply(result, result.history)
          /\ fetches' = Settle(f)
    /\ UNCHANGED <<deployment, mounted, summaryData, homeLoading, selectedCountry, dashboard, refresh,
                   hourlyCarbonData, uiVars, calcVars, batchVars, routeVars>>

\* FlexibilityCalculator: a render with another hourlyCarbonData prop, and its effect
HourlyCarbonDataChanged ==
    /\ selectedCountry # NoCountry
    /\ \E prop \in CarbonProps :
          /\ prop # hourlyCarbonData
          /\ hourlyCarbonData' = prop
          /\ LET metrics == IF ~IsNull(prop) /\ Len(prop.values) >= MinPoints
                            THEN calculateCarbonFlexibility(prop.values)
                            ELSE Null
             IN IF ~IsNull(metrics)
                THEN /\ calculatedCarbonMetrics' = metrics
                     /\ carbonDataSource' = "calculated"
                ELSE UNCHANGED <<calculatedCarbonMetrics, carbonDataSource>>
    /\ UNCHANGED <<pageVars, uiVars, calcVars, batchVars, routeVars>>

NextPage ==
    \/ SelectCountry
    \/ DashboardDataSettled
    \/ LivePricesAnswered
    \/ LiveCarbonAnswered
    \/ RefreshClicked
    \/ RefreshPricesAnswered
    \/ RefreshCarbonAnswered

SpecPage == InitPage /\ [][NextPage]_vars

NextCarbon ==
    \/ SelectCountry
    \/ CalculatorDataSettled
    \/ HourlyCarbonAnswered
    \/ HourlyCarbonDataChanged

SpecCarbon == InitCarbon /\ [][NextCarbon]_vars

\* every request is answered or fails in the end; the user need not act
SpecPageFair ==
    /\ SpecPage
    /\ WF_vars(RefreshPricesAnswered)
    /\ WF_vars(RefreshCarbonAnswered)

(***************************************************************************)
(* Claims about the routes (SpecRoute).                                    *)
(***************************************************************************)
EntsoeParsed ==
    /\ routeCall.route = "entsoe"
    /\ routeCall.apiKey
    /\ routeCall.upstream.ok

\* the observation a Point of a Period stands for
ObservationOf(period, point) ==
    [datetime |-> IsoDatetime(period.start
                                + (point.position - 1) * MinutesPerPeriod(period.resolution)),
     price |-> point.amount]

\* how many Points of the document stand for observation o
PointsStandingFor(xml, o) ==
    Cardinality({pk \in {<<p, k>> : p \in 1 .. Len(xml), k \in 1 .. MaxPoints + 1} :
                    /\ pk[2] <= Len(xml[pk[1]].points)
                    /\ ObservationOf(xml[pk[1]], xml[pk[1]].points[pk[2]]) = o})

AllObservations(xml) ==
    {ObservationOf(xml[p], xml[p].points[k]) :
        <<p, k>> \in {pk \in (1 .. Len(xml)) \X (1 .. MaxPoints + 1) : pk[2] <= Len(xml[pk[1]].points)}}

TimesReturned(prices, o) == Cardinality({i \in 1 .. Len(prices) : prices[i] = o})

\* C26 (as claimed): the prices the route parsed from the XML are exactly one
\* observation per Point, at the period start plus (position - 1) resolution steps
\* and with that Point's amount, negative amounts included, ascending by timestamp.
C26_PointFaithful ==
    EntsoeParsed =>
        LET xml == routeCall.upstream.xml
            prices == routeCall.response.prices
        IN /\ \A o \in AllObservations(xml) \cup {prices[i] : i \in 1 .. Len(prices)} :
                 TimesReturned(prices, o) = PointsStandingFor(xml, o)
           /\ \A i \in 1 .. Len(prices) - 1 :
                 Instant(prices[i].datetime) <= Instant(prices[i + 1].datetime)

(***************************************************************************)
(* Claims about the Home page (SpecHome).                                  *)
(***************************************************************************)
NonNullCountries(field) ==
    {c \in DOMAIN summaryData.countries : NotNull(summaryData.countries[c][field])}

\* the arithmetic mean of a field over the countries whose value is not null, rounded
\* to the integer the page displays
MeanOfNonNull(field) ==
    MathRoundDiv(SumOver(summaryData.countries, field, NonNullCountries(field)),
                 1000 * Cardinality(NonNullCountries(field)))

\* C29 (as claimed): each European average shown is the mean of the countries' 7-day
\* averages over all countries whose value is not null, a value of exactly 0 counted
\* in the divisor, and is a number whenever some country has a non-null value.
C29_AveragesCountZero ==
    ~IsNull(StatsOverview) =>
        /\ NonNullCountries("avgPrice7d") # {} =>
              /\ StatsOverview.avgElectricityPrice.kind = "num"
              /\ StatsOverview.avgElectricityPrice = MeanOfNonNull("avgPrice7d")
        /\ NonNullCountries("avgCarbon7d") # {} =>
              /\ StatsOverview.avgCarbonIntensity.kind = "num"
              /\ StatsOverview.avgCarbonIntensity = MeanOfNonNull("avgCarbon7d")

(***************************************************************************)
(* Claims about the page with a country selected (SpecPage, SpecCarbon).   *)
(***************************************************************************)
\* every fetch of /data/${countryCode}.json has settled
StaticDataSettled ==
    /\ Pending("Dashboard", "data") = {}
    /\ Pending("FlexibilityCalculator", "data") = {}

\* the country whose file a component holds; NoCountry when it holds none
HeldCountry(countryData) == IF IsNull(countryData) THEN NoCountry ELSE countryData.iso3

\* C22 (as claimed): once every static-data fetch has settled, and every country's
\* file can be loaded, the data Dashboard and FlexibilityCalculator hold is the data
\* of the selected country, in whatever order the responses arrived.
C22_NoStaleCountryData ==
    (/\ selectedCountry # NoCountry
     /\ deployment.files = Countries
     /\ StaticDataSettled)
    => /\ "Dashboard" \in mounted => HeldCountry(dashboard.data) = selectedCountry
       /\ "FlexibilityCalculator" \in mounted => HeldCountry(data) = selectedCountry

\* C25 (as claimed): when the file of the selected country cannot be loaded, then
\* after the fetches have settled Dashboard shows its failure message and
\* FlexibilityCalculator shows no metrics; neither holds another country's data.
C25_FailureShowsNoOtherCountry ==
    (/\ selectedCountry # NoCountry
     /\ selectedCountry \notin deployment.files
     /\ StaticDataSettled)
    => /\ "Dashboard" \in mounted =>
             /\ DashboardScreen = "failed"
             /\ HeldCountry(dashboard.data) = NoCountry
       /\ "FlexibilityCalculator" \in mounted =>
             /\ IsNull(data) \/ loading
             /\ HeldCountry(data) = NoCountry

\* every live fetch of the Dashboard has settled and no refresh is running
LiveFetchesSettled ==
    /\ Pending("Dashboard", "prices") = {}
    /\ Pending("Dashboard", "carbon") = {}
    /\ refresh = NotRefreshing

\* the live price series the ENTSO-E route can return for a country
LivePricesFetchedFor(c) ==
    {entsoeGET(TRUE, upstream).prices : upstream \in EntsoeUpstreamsOf(c)}

\* the live carbon intensities the NESO or Electricity Maps route can return for a country
LiveCarbonFetchedFor(c) ==
    IF c = "GBR"
    THEN {Num(upstream.body.data[1]) :
             upstream \in {u \in NesoCurrentUpstreams : u.ok /\ Len(u.body.data) > 0}}
    ELSE {upstream.body.carbonIntensity : upstream \in {u \in LatestUpstreamsOf(c) : u.ok}}

\* C23 (as claimed): once the live fetches of the selected country have completed,
\* with or without success, a live price series or live carbon value the Dashboard
\* displays was fetched for the selected country.
C23_LiveValuesOfSelectedCountry ==
    (/\ selectedCountry # NoCountry
     /\ LiveFetchesSettled
     /\ DashboardScreen = "main")
    => /\ HasLivePrices => hourlyPriceData \in LivePricesFetchedFor(selectedCountry)
       /\ ~IsNull(dashboard.liveCarbon) =>
             currentCarbon \in LiveCarbonFetchedFor(selectedCountry)

\* C24 (as claimed): once the static-data and live-price fetches have settled, in
\* either order, priceSource is 'live' exactly when the hourly chart is fed from a
\* non-empty live series and 'static' exactly when it is fed from recentHourly.
C24_PriceLabelMatchesSeries ==
    (/\ Pending("Dashboard", "data") = {}
     /\ Pending("Dashboard", "prices") = {}
     /\ refresh = NotRefreshing
     /\ DashboardScreen = "main")
    => /\ dashboard.dataSource.priceSource = "live" <=> HasLivePrices
       /\ dashboard.dataSource.priceSource = "static" <=> ~HasLivePrices

\* the answers the two keyed routes give in the deployment, over every reply the
\* upstream could have given
KeyedRouteAnswers ==
    {entsoeGET(deployment.keys.entsoe, upstream) :
        upstream \in UNION {EntsoeUpstreamsOf(c) : c \in Countries}}
    \cup {carbonIntensityGET(deployment.keys.electricityMaps, isConfiguredZone, upstream) :
             isConfiguredZone \in BOOLEAN,
             upstream \in PastRangeUpstreams \cup UNION {LatestUpstreamsOf(c) : c \in Countries}}

\* C21: with no API key configured, the ENTSO-E route and the Electricity Maps route
\* answer 200 with source 'static' and ask nothing upstream, and the Dashboard's
\* price source stays 'static' and its carbon source is 'static' unless the value
\* came from NESO, which needs no key; neither is ever 'error'.
C21_WorksWithoutKeys ==
    deployment.keys = NoKeys =>
        /\ \A answer \in KeyedRouteAnswers :
              /\ answer.status = 200
              /\ answer.source = "static"
              /\ answer.upstreamRequests = 0
        /\ dashboard.dataSource.priceSource = "static"
        /\ IsNull(dashboard.livePrices)
        /\ dashboard.dataSource.carbonSource \in {"static", "live"}
        /\ dashboard.dataSource.carbonSource = "live" =>
              /\ ~IsNull(dashboard.liveCarbon)
              /\ dashboard.liveCarbon.api = "NESO"

\* without keys, a country's file, price answer and carbon answer have all arrived
C21_Witness ==
    /\ deployment.keys = NoKeys
    /\ selectedCountry = "DEU"
    /\ fetches = EmptyBag
    /\ DashboardScreen = "main"
    /\ dashboard.dataSource.priceSource = "static"
    /\ dashboard.dataSource.carbonSource = "static"

\* C27: in every state of FlexibilityCalculator, whatever the order of the carbon
\* fetch, its fallback and the hourlyCarbonData prop effect, carbonDataSource is
\* 'calculated' exactly when calculatedCarbonMetrics is held and 'estimated'
\* exactly when it is null.
C27_CarbonLabelMatchesMetrics ==
    /\ carbonDataSource = "calculated" <=> ~IsNull(calculatedCarbonMetrics)
    /\ carbonDataSource = "estimated" <=> IsNull(calculatedCarbonMetrics)

\* the prop effect has calculated metrics from a long enough series, and the fallback
\* of a later carbon fetch has put the estimate back
C27_Witness ==
    /\ ~IsNull(hourlyCarbonData)
    /\ Len(hourlyCarbonData.values) >= MinPoints
    /\ ~IsNull(data)
    /\ Pending("FlexibilityCalculator", "hourlyCarbon") = {}
    /\ carbonDataSource = "estimated"
    /\ IsNull(calculatedCarbonMetrics)

\* C28: handleRefresh holds refreshing true while it runs, and every refresh that
\* has started comes to its end with refreshing false again, whether the price and
\* carbon requests succeed, answer without live data or throw.
C28_RefreshCompletes ==
    /\ [](refresh.pc # "idle" => dashboard.refreshing)
    /\ dashboard.refreshing ~> ~dashboard.refreshing

\* a refresh whose price request brought no live series waits for its carbon request
C28_Witness ==
    /\ dashboard.refreshing
    /\ refresh.pc = "carbon"
    /\ IsNull(dashboard.livePrices)

====
